---- MODULE Spec2Model ----
(***************************************************************************)
(* A model of netbox-plugin-audit: audit_plugin (auditor.py) run step by   *)
(* step over an abstract source tree, the thirteen check procedures        *)
(* (checks/*.py) as operators from the tree to a CategoryResult, and the   *)
(* exit-code policy of cli.main.                                            *)
(*                                                                         *)
(* Abstractions.  A version string "1.2.3" is the tuple <<1, 2, 3>> of its *)
(* dotted numbers; NoVersion (the empty tuple) is Python's None.  Version  *)
(* strings are non-empty.  A file's text is kept as the facts the code     *)
(* asks of it (which regular expressions match, what the AST holds); a     *)
(* file listed in tree.undecodable raises UnicodeDecodeError when read.    *)
(* A CheckResult keeps its name and severity; the message is dropped.      *)
(***************************************************************************)
EXTENDS Naturals, Integers, Sequences, FiniteSets, TLC

VARIABLES
    pc,           \* position in main / audit_plugin
    source,       \* kind of the source argument: "local", "missing", "remote"
    tree,         \* the source tree the audit reads (fixed during a run)
    env,          \* outcomes of external tools and of the network
    skip_lint,    \* --skip-lint
    skip_build,   \* --skip-build
    strict,       \* --strict
    cleanup,      \* audit_plugin's local `cleanup`
    plugin_path,  \* audit_plugin's local `plugin_path`: "source" or "tmpdir"
    tmpdir,       \* the clone directory: "none", "exists", "removed"
    localdir,     \* the local source directory: "none", "exists", "removed"
    pkg_dir,      \* audit_plugin's local `pkg_dir`
    version,      \* audit_plugin's local `version`
    categories,   \* audit_plugin's local `categories`
    report,       \* the dict audit_plugin returns (NoReport before that)
    raised,       \* the exception propagating out of audit_plugin, or None
    exit_code,    \* the process exit status, -1 while running
    cat,          \* a CategoryResult under construction (SpecCategory)
    shown         \* the pass percentage main printed, -1 when it printed none

vars == << pc, source, tree, env, skip_lint, skip_build, strict, cleanup,
           plugin_path, tmpdir, localdir, pkg_dir, version, categories,
           report, raised, exit_code, cat, shown >>

(***************************************************************************)
(* Values                                                                  *)
(***************************************************************************)
None == "None"
NoVersion == << >>

V123 == << 1, 2, 3 >>
V120 == << 1, 2, 0 >>
V200 == << 2, 0, 0 >>
V12 == << 1, 2 >>

\* re.match(r"^\d+\.\d+\.\d+$", v)
IsSemver(v) == Len(v) = 3

PASS == "pass"
INFO == "info"
WARNING == "warning"
ERROR == "error"
Severity == { PASS, INFO, WARNING, ERROR }

CheckResult(name, severity) == [ name |-> name, severity |-> severity ]

CategoryResult(name, icon, results) ==
    [ name |-> name, icon |-> icon, results |-> results ]

RECURSIVE CountSeverity(_, _)
CountSeverity(results, sev) ==
    IF results = << >> THEN 0
    ELSE (IF Head(results).severity = sev THEN 1 ELSE 0)
         + CountSeverity(Tail(results), sev)

\* a count that takes the warnings for infos as well
infos_and_warnings(c) == CountSeverity(c.results, INFO) + CountSeverity(c.results, WARNING)

passed(c) == CountSeverity(c.results, PASS)
total(c) == Len(c.results)
errors(c) == CountSeverity(c.results, ERROR)
warnings(c) == CountSeverity(c.results, WARNING)
infos(c) == CountSeverity(c.results, INFO)

\* a result appended only under a condition
Opt(cond, r) == IF cond THEN << r >> ELSE << >>

(***************************************************************************)
(* The file system                                                         *)
(***************************************************************************)
\* os.path.isfile / os.path.isdir of a path below the root
isfile(t, p) == p \in t.files
isdir(t, p) == p \in t.dirs
\* ... of a path below the package directory
pkg_isfile(t, p) == p \in t.pkg_files
pkg_isdir(t, p) == p \in t.pkg_dirs
\* open(p).read() raises (UnicodeDecodeError)
Unreadable(t, p) == p \in t.undecodable

IfFile(t, fname, sev) ==
    CheckResult(fname, IF isfile(t, fname) THEN PASS ELSE sev)

LICENSE_VARIANTS ==
    << "LICENSE", "LICENSE.txt", "LICENSE.md", "LICENCE", "LICENCE.txt", "LICENCE.md" >>

CHANGELOG_VARIANTS ==
    << "CHANGELOG.md", "CHANGELOG.rst", "CHANGELOG.txt", "CHANGELOG", "CHANGES.md",
       "CHANGES.rst", "CHANGES.txt", "HISTORY.md", "HISTORY.rst" >>

\* the first variant that is a file, or None
RECURSIVE FirstFile(_, _)
FirstFile(t, variants) ==
    IF variants = << >> THEN None
    ELSE IF isfile(t, Head(variants)) THEN Head(variants)
    ELSE FirstFile(t, Tail(variants))

(***************************************************************************)
(* checks/structure.py                                                     *)
(***************************************************************************)
check_structure(t, pkg) ==
    CategoryResult("Structure", "F",
        << IfFile(t, "pyproject.toml", ERROR),
           IfFile(t, "README.md", ERROR),
           IfFile(t, ".gitignore", WARNING),
           CheckResult("LICENSE",
               IF FirstFile(t, LICENSE_VARIANTS) # None THEN PASS ELSE WARNING),
           CheckResult("CHANGELOG",
               IF FirstFile(t, CHANGELOG_VARIANTS) # None THEN PASS ELSE WARNING),
           IfFile(t, "CONTRIBUTING.md", INFO),
           IfFile(t, "COMPATIBILITY.md", INFO),
           IfFile(t, ".editorconfig", INFO),
           IfFile(t, ".pre-commit-config.yaml", INFO) >>
        \o (IF isdir(t, "docs")
            THEN << CheckResult("docs_dir", PASS) >>
                 \o Opt(isfile(t, "mkdocs.yml"), CheckResult("mkdocs", PASS))
            ELSE << CheckResult("docs_dir", INFO) >>)
        \o << CheckResult("workflows",
                  IF isdir(t, ".github/workflows") THEN PASS ELSE WARNING) >>
        \o (IF pkg # None
            THEN << CheckResult("package_dir", PASS),
                    CheckResult("init_py",
                        IF pkg_isfile(t, "__init__.py") THEN PASS ELSE ERROR),
                    CheckResult("templates",
                        IF pkg_isdir(t, "templates") THEN PASS ELSE INFO) >>
            ELSE << CheckResult("package_dir", ERROR) >>))

(***************************************************************************)
(* checks/pluginconfig.py                                                  *)
(*                                                                         *)
(* tree.init holds what the code reads from <pkg>/__init__.py:             *)
(*   read            "ok", "syntax" (ast.parse raises SyntaxError) or      *)
(*                   "decode" (read() raises UnicodeDecodeError)           *)
(*   assigns         the Assign nodes with a Name target __version__, in   *)
(*                   ast.walk order: level "top"/"nested", kind "str"      *)
(*                   (string literal), "num" (another constant) or "expr"  *)
(*   imports_version an ImportFrom of module "version" naming __version__  *)
(*   txt_importlib   "importlib.metadata" or "importlib import metadata"   *)
(*                   occurs in the text                                    *)
(*   txt_mdversion   "metadata.version(" occurs in the text                *)
(*   config          the PluginConfig subclass, see below                  *)
(***************************************************************************)
REQUIRED_ATTRS ==
    << "name", "verbose_name", "description", "version", "base_url", "min_version" >>

RECOMMENDED_ATTRS == << "author", "author_email" >>

\* _get_class_attributes: attr -> "absent", "str", "ref" (__ref__X),
\* "present" (__present__) or "dynamic" (__dynamic_version__)
AttrSet(config, attr) == config.attrs[attr] # "absent"
AttrNotRef(config, attr) == config.attrs[attr] \notin { "absent", "ref" }

AttrResult(config, attr, sev) ==
    CheckResult(attr, IF AttrSet(config, attr) THEN PASS ELSE sev)

\* "__version__" in _extract_assignments(tree): a string literal assigned to
\* __version__ anywhere in the file
HasVersionAssignment(init) ==
    \E i \in 1..Len(init.assigns) : init.assigns[i].kind = "str"

check_pluginconfig_raises(t, pkg) ==
    /\ pkg # None
    /\ pkg_isfile(t, "__init__.py")
    /\ t.init.read = "decode"

check_pluginconfig(t, pkg) ==
    LET config == t.init.config
        results ==
            IF pkg = None THEN << CheckResult("package", ERROR) >>
            ELSE IF ~pkg_isfile(t, "__init__.py") THEN << CheckResult("init_py", ERROR) >>
            ELSE IF t.init.read = "syntax" THEN << CheckResult("parse", ERROR) >>
            ELSE IF ~config.class THEN << CheckResult("pluginconfig_class", ERROR) >>
            ELSE
                << CheckResult("pluginconfig_class", PASS),
                   CheckResult("config_assignment",
                       CASE config.assignment = "same" -> PASS
                         [] config.assignment = "other" -> WARNING
                         [] OTHER -> ERROR) >>
                \o [ i \in 1..Len(REQUIRED_ATTRS) |->
                        AttrResult(config, REQUIRED_ATTRS[i], ERROR) ]
                \o [ i \in 1..Len(RECOMMENDED_ATTRS) |->
                        AttrResult(config, RECOMMENDED_ATTRS[i], WARNING) ]
                \o << AttrResult(config, "max_version", WARNING),
                      AttrResult(config, "default_settings", INFO) >>
                \o Opt(AttrNotRef(config, "name"),
                       CheckResult("name_match",
                           IF config.attrs["name"] = "str" /\ config.name_is_pkg
                           THEN PASS ELSE WARNING))
                \o Opt(AttrNotRef(config, "author_email"),
                       CheckResult("email_format",
                           IF config.attrs["author_email"] = "str" /\ config.email_valid
                           THEN PASS ELSE WARNING))
                \o Opt(AttrNotRef(config, "base_url"),
                       CheckResult("base_url_format",
                           IF config.attrs["base_url"] = "str" /\ config.base_url_safe
                           THEN PASS ELSE WARNING))
                \o Opt(config.attrs["min_version"] = "str" /\ config.min_version # "nonint",
                       CheckResult("min_version_value",
                           IF config.min_version = "ge4" THEN PASS ELSE WARNING))
                \o Opt(pkg_isfile(t, "widgets.py") /\ t.widget_classes,
                       CheckResult("ready_widgets",
                           IF config.ready_imports_widgets THEN PASS ELSE WARNING))
                \o << CheckResult("__version__",
                          IF \/ HasVersionAssignment(t.init)
                             \/ t.init.imports_version
                             \/ config.attrs["version"] = "dynamic"
                          THEN PASS ELSE WARNING) >>
    IN  CategoryResult("PluginConfig", "C", results)

(***************************************************************************)
(* checks/pyproject.py                                                     *)
(*                                                                         *)
(* tree.pyproject holds what tomllib.load returns for pyproject.toml:      *)
(*   parse       "ok" or "malformed" (tomllib.load raises)                 *)
(*   version     project.version, NoVersion when the key is absent         *)
(*   build       [build-system]: "absent", "setuptools" or "other"         *)
(*   project     the [project] table is present and not empty              *)
(*   keys        the keys of [project]                                     *)
(*   license     project.license: "none", "apache" or "other"              *)
(*   reqpy       project.requires-python: "none", "modern" or "old"        *)
(*   classifiers which of "django", "py3" some classifier mentions         *)
(*   urls        the keys of project.urls                                  *)
(*   dev, dev_tools   optional-dependencies.dev is not empty; which of     *)
(*                    black, flake8, isort it mentions                     *)
(*   tool        which of "find", "package-data", "black", "isort" are     *)
(*               configured under [tool]                                   *)
(*   isort_black      tool.isort.profile = "black"                         *)
(*   line_length      "unset", "match" or "differ" (isort against black)   *)
(***************************************************************************)
REQUIRED_FIELDS ==
    << "name", "version", "description", "readme", "requires-python", "authors" >>

RECOMMENDED_FIELDS == << "license", "classifiers", "keywords", "dependencies" >>

EXPECTED_URLS == << "Homepage", "Repository", "Issues", "Documentation", "Changelog" >>

DEV_TOOLS == << "black", "flake8", "isort" >>

\* url_name.lower()
UrlCheckName(u) ==
    CASE u = "Homepage" -> "url_homepage"
      [] u = "Repository" -> "url_repository"
      [] u = "Issues" -> "url_issues"
      [] u = "Documentation" -> "url_documentation"
      [] u = "Changelog" -> "url_changelog"

\* f"project_{field_name}"
ProjectCheckName(f) ==
    CASE f = "name" -> "project_name"
      [] f = "version" -> "project_version"
      [] f = "description" -> "project_description"
      [] f = "readme" -> "project_readme"
      [] f = "requires-python" -> "project_requires-python"
      [] f = "authors" -> "project_authors"
      [] f = "license" -> "project_license"
      [] f = "classifiers" -> "project_classifiers"
      [] f = "keywords" -> "project_keywords"
      [] f = "dependencies" -> "project_dependencies"

\* f"dev_{tool}"
DevCheckName(tool) ==
    CASE tool = "black" -> "dev_black"
      [] tool = "flake8" -> "dev_flake8"
      [] tool = "isort" -> "dev_isort"

check_pyproject(t, pkg) ==
    LET p == t.pyproject
        results ==
            IF ~isfile(t, "pyproject.toml") THEN << CheckResult("exists", ERROR) >>
            ELSE IF p.parse = "malformed" THEN << CheckResult("parse", ERROR) >>
            ELSE
                << CheckResult("build_system",
                       CASE p.build = "setuptools" -> PASS
                         [] p.build = "other" -> WARNING
                         [] OTHER -> ERROR) >>
                \o (IF ~p.project THEN << CheckResult("project", ERROR) >>
                    ELSE
                        [ i \in 1..Len(REQUIRED_FIELDS) |->
                            CheckResult(ProjectCheckName(REQUIRED_FIELDS[i]),
                                IF REQUIRED_FIELDS[i] \in p.keys THEN PASS ELSE ERROR) ]
                        \o [ i \in 1..Len(RECOMMENDED_FIELDS) |->
                            CheckResult(ProjectCheckName(RECOMMENDED_FIELDS[i]),
                                IF RECOMMENDED_FIELDS[i] \in p.keys THEN PASS ELSE WARNING) ]
                        \o Opt(p.license # "none",
                               CheckResult("license_type",
                                   IF p.license = "apache" THEN PASS ELSE INFO))
                        \o Opt(p.reqpy # "none",
                               CheckResult("python_version",
                                   IF p.reqpy = "modern" THEN PASS ELSE WARNING))
                        \o << CheckResult("classifier_django",
                                  IF "django" \in p.classifiers THEN PASS ELSE WARNING),
                              CheckResult("classifier_python",
                                  IF "py3" \in p.classifiers THEN PASS ELSE WARNING) >>
                        \o [ i \in 1..Len(EXPECTED_URLS) |->
                            CheckResult(UrlCheckName(EXPECTED_URLS[i]),
                                IF EXPECTED_URLS[i] \in p.urls THEN PASS ELSE WARNING) ]
                        \o (IF p.dev
                            THEN << CheckResult("dev_deps", PASS) >>
                                 \o [ i \in 1..Len(DEV_TOOLS) |->
                                     CheckResult(DevCheckName(DEV_TOOLS[i]),
                                         IF DEV_TOOLS[i] \in p.dev_tools
                                         THEN PASS ELSE WARNING) ]
                            ELSE << CheckResult("dev_deps", WARNING) >>)
                        \o << CheckResult("setuptools_find",
                                  IF "find" \in p.tool THEN PASS ELSE WARNING),
                              CheckResult("package_data",
                                  IF "package-data" \in p.tool THEN PASS ELSE WARNING),
                              CheckResult("black_config",
                                  IF "black" \in p.tool THEN PASS ELSE WARNING) >>
                        \o (IF "isort" \in p.tool
                            THEN << CheckResult("isort_config",
                                        IF p.isort_black THEN PASS ELSE WARNING) >>
                                 \o Opt("black" \in p.tool /\ p.line_length # "unset",
                                        CheckResult("line_length_match",
                                            IF p.line_length = "match"
                                            THEN PASS ELSE WARNING))
                            ELSE << CheckResult("isort_config", WARNING) >>))
    IN  CategoryResult("pyproject.toml", "P", results)

(***************************************************************************)
(* Version resolution: auditor.py and checks/versioning.py                 *)
(*                                                                         *)
(* tree.verpy holds <pkg>/version.py: read and assigns as for tree.init.   *)
(* tree.changelog.lines holds the lines of the changelog that carry a      *)
(* dotted number after one or more '#': hashes (how many '#'), bracket     *)
(* ([X.Y.Z]), ver, dated (followed by " - YYYY-MM-DD"), date_ok.           *)
(***************************************************************************)
\* for node in ast.walk(tree): the first Assign to __version__ whose value is
\* an ast.Constant, as str(value)
RECURSIVE FirstConstant(_)
FirstConstant(assigns) ==
    IF assigns = << >> THEN NoVersion
    ELSE IF Head(assigns).kind \in { "str", "num" } THEN Head(assigns).val
    ELSE FirstConstant(Tail(assigns))

\* a reader of version.py that finds nothing
version_file_ignored(t, filename) == NoVersion

_get_version_from_file(t, filename) ==
    IF ~pkg_isfile(t, filename) THEN NoVersion
    ELSE IF t.verpy.read # "ok" THEN NoVersion
    ELSE FirstConstant(t.verpy.assigns)

\* a reader of pyproject.toml that finds nothing
manifest_ignored(t) == NoVersion

_get_pyproject_version(t) ==
    IF ~isfile(t, "pyproject.toml") THEN NoVersion
    ELSE IF t.pyproject.parse = "malformed" THEN NoVersion
    ELSE t.pyproject.version

\* a resolver that asks version.py before the constant of __init__.py
import_before_constant(t, pkg) ==
    IF ~pkg_isfile(t, "__init__.py") THEN NoVersion
    ELSE IF t.init.read # "ok" THEN NoVersion
    ELSE IF t.init.imports_version /\ _get_version_from_file(t, "version.py") # NoVersion
         THEN _get_version_from_file(t, "version.py")
    ELSE IF FirstConstant(t.init.assigns) # NoVersion
         THEN FirstConstant(t.init.assigns)
    ELSE IF t.init.txt_importlib THEN _get_pyproject_version(t)
    ELSE NoVersion

\* auditor._get_plugin_version
_get_plugin_version(t, pkg) ==
    IF ~pkg_isfile(t, "__init__.py") THEN NoVersion
    ELSE IF t.init.read # "ok" THEN NoVersion
    ELSE IF FirstConstant(t.init.assigns) # NoVersion
         THEN FirstConstant(t.init.assigns)
    ELSE IF t.init.imports_version /\ _get_version_from_file(t, "version.py") # NoVersion
         THEN _get_version_from_file(t, "version.py")
    ELSE IF t.init.txt_importlib THEN _get_pyproject_version(t)
    ELSE NoVersion

\* versioning._get_version_from_file and versioning._get_pyproject_version
versioning_get_version_from_file(t, filename) ==
    IF ~pkg_isfile(t, filename) THEN NoVersion
    ELSE IF t.verpy.read # "ok" THEN NoVersion
    ELSE FirstConstant(t.verpy.assigns)

\* a variant that reads no file
manifest_version_fixed(t) == V123

versioning_get_pyproject_version(t) ==
    IF ~isfile(t, "pyproject.toml") THEN NoVersion
    ELSE IF t.pyproject.parse = "malformed" THEN NoVersion
    ELSE t.pyproject.version

\* versioning._get_init_version: a static version, ("dynamic", pattern) or None
Static(v) == [ dynamic |-> FALSE, ver |-> v ]
Dynamic == [ dynamic |-> TRUE, ver |-> NoVersion ]

_get_init_version(t, pkg) ==
    IF ~pkg_isfile(t, "__init__.py") THEN Static(NoVersion)
    ELSE IF t.init.read # "ok" THEN Static(NoVersion)
    ELSE IF FirstConstant(t.init.assigns) # NoVersion
         THEN Static(FirstConstant(t.init.assigns))
    ELSE IF /\ t.init.imports_version
            /\ versioning_get_version_from_file(t, "version.py") # NoVersion
         THEN Static(versioning_get_version_from_file(t, "version.py"))
    ELSE IF t.init.txt_importlib /\ t.init.txt_mdversion THEN Dynamic
    ELSE Static(NoVersion)

\* re.search(r"##?\s*\[?(\d+\.\d+\.\d+)\]?", content): the first line whose
\* number has three parts or more, cut to three
RECURSIVE FirstVersionHeading(_)
FirstVersionHeading(lines) ==
    IF lines = << >> THEN NoVersion
    ELSE IF Head(lines).hashes >= 1 /\ Len(Head(lines).ver) >= 3
         THEN SubSeq(Head(lines).ver, 1, 3)
    ELSE FirstVersionHeading(Tail(lines))

\* a variant that reads no file
changelog_version_fixed(t) == V123

_get_changelog_version(t) ==
    LET cl_path == FirstFile(t, CHANGELOG_VARIANTS)
    IN  IF cl_path = None THEN NoVersion
        ELSE IF Unreadable(t, cl_path) THEN NoVersion
        ELSE FirstVersionHeading(t.changelog.lines)

\* a variant that takes no notice of setup.py
no_version_is_error(t) == CheckResult("pyproject_match", ERROR)

\* the pyproject_match result when pyproject.toml gives no version
NoPyprojectVersion(t) ==
    CheckResult("pyproject_match", IF isfile(t, "setup.py") THEN INFO ELSE ERROR)

check_versioning(t, pkg) ==
    LET init_ver_raw == _get_init_version(t, pkg)
        pyproj_ver == versioning_get_pyproject_version(t)
        cl_ver == _get_changelog_version(t)
        is_dynamic == init_ver_raw.dynamic
        init_ver == IF is_dynamic THEN pyproj_ver ELSE init_ver_raw.ver
        first ==
            IF is_dynamic
            THEN << CheckResult("semver", PASS),
                    IF pyproj_ver # NoVersion
                    THEN CheckResult("pyproject_match",
                             IF IsSemver(pyproj_ver) THEN PASS ELSE WARNING)
                    ELSE CheckResult("pyproject_match", ERROR) >>
            ELSE IF init_ver_raw.ver # NoVersion
            THEN << CheckResult("semver",
                        IF IsSemver(init_ver_raw.ver) THEN PASS ELSE WARNING),
                    IF pyproj_ver # NoVersion
                    THEN CheckResult("pyproject_match",
                             IF init_ver_raw.ver = pyproj_ver THEN PASS ELSE ERROR)
                    ELSE NoPyprojectVersion(t) >>
            ELSE << CheckResult("semver", ERROR) >>
                 \o Opt(pyproj_ver = NoVersion, NoPyprojectVersion(t))
        changelog ==
            IF init_ver # NoVersion /\ cl_ver # NoVersion
            THEN << CheckResult("changelog_match",
                        IF init_ver = cl_ver THEN PASS ELSE WARNING) >>
            ELSE Opt(cl_ver = NoVersion, CheckResult("changelog_match", INFO))
    IN  CategoryResult("Versioning", "V",
            IF pkg = None THEN << CheckResult("package", ERROR) >>
            ELSE first \o changelog)

(***************************************************************************)
(* checks/changelog.py                                                     *)
(*                                                                         *)
(* tree.changelog: header ("changelog", "other" or "none": the first       *)
(* line), unreleased, lines (see above), subsections, keepref, breaking.   *)
(* env.github_repo: `git remote get-url origin` names a GitHub repository. *)
(* env.releases: the releases API call: "error", "none", "body" (some      *)
(* release has notes) or "nobody".                                         *)
(***************************************************************************)
_find_changelog(t) == FirstFile(t, CHANGELOG_VARIANTS)

\* cl_path.endswith(".md")
IsMarkdown(p) == p \in { "CHANGELOG.md", "CHANGES.md", "HISTORY.md" }

\* the results _check_github_releases appends; << >> when it returns False
_check_github_releases(e) ==
    IF ~e.github_repo \/ e.releases \in { "error", "none" } THEN << >>
    ELSE << CheckResult("github_releases", PASS),
            CheckResult("release_notes", IF e.releases = "body" THEN PASS ELSE INFO),
            CheckResult("changelog_suggestion", INFO) >>

\* re.findall(r"##\s*\[(\d+\.\d+\.\d+)\]\s*-\s*(\d{4}-\d{2}-\d{2})", content)
DatedHeadings(lines) ==
    SelectSeq(lines, LAMBDA l : l.hashes >= 2 /\ l.bracket /\ Len(l.ver) = 3 /\ l.dated)

check_changelog_raises(t) ==
    /\ _find_changelog(t) # None
    /\ IsMarkdown(_find_changelog(t))
    /\ Unreadable(t, _find_changelog(t))

check_changelog(t, e) ==
    LET cl_path == _find_changelog(t)
        c == t.changelog
        dated == DatedHeadings(c.lines)
        results ==
            IF cl_path = None
            THEN IF _check_github_releases(e) # << >>
                 THEN _check_github_releases(e)
                 ELSE << CheckResult("exists", WARNING) >>
            ELSE IF ~IsMarkdown(cl_path)
            THEN << CheckResult("exists", PASS), CheckResult("format", INFO) >>
            ELSE
                << CheckResult("exists", PASS),
                   CheckResult("header",
                       CASE c.header = "changelog" -> PASS
                         [] c.header = "other" -> INFO
                         [] OTHER -> WARNING),
                   CheckResult("unreleased", IF c.unreleased THEN PASS ELSE INFO) >>
                \o (IF dated # << >>
                    THEN << CheckResult("versions", PASS),
                            CheckResult("dates",
                                IF \A i \in 1..Len(dated) : dated[i].date_ok
                                THEN PASS ELSE WARNING) >>
                    ELSE << CheckResult("versions", WARNING) >>)
                \o << CheckResult("subsections", IF c.subsections THEN PASS ELSE INFO),
                      CheckResult("format_ref", IF c.keepref THEN PASS ELSE INFO) >>
    IN  CategoryResult("CHANGELOG", "L", results)

(***************************************************************************)
(* checks/readme.py                                                        *)
(*                                                                         *)
(* tree.readme: the facts the patterns ask of README.md, as a set.         *)
(***************************************************************************)
check_readme_raises(t) ==
    isfile(t, "README.md") /\ Unreadable(t, "README.md")

ReadmeSection(t, name, sev) ==
    CheckResult(name, IF name \in t.readme THEN PASS ELSE sev)

check_readme(t) ==
    CategoryResult("README", "R",
        IF ~isfile(t, "README.md") THEN << CheckResult("exists", ERROR) >>
        ELSE << CheckResult("length", IF "len500" \in t.readme THEN PASS ELSE WARNING),
                ReadmeSection(t, "features", WARNING),
                ReadmeSection(t, "install", WARNING),
                ReadmeSection(t, "configuration", WARNING),
                ReadmeSection(t, "requirements", INFO),
                ReadmeSection(t, "badges", INFO),
                ReadmeSection(t, "screenshots", INFO) >>)

(***************************************************************************)
(* checks/django_app.py                                                    *)
(*                                                                         *)
(* tree.model_classes: models.py (or a module of models/) defines a class  *)
(* with a *Model* base.  tree.migration_files: migrations/ holds a module  *)
(* other than __init__.py.                                                 *)
(***************************************************************************)
API_FILES ==
    << << "api/__init__.py", "api_init" >>, << "api/serializers.py", "api_serializers" >>,
       << "api/urls.py", "api_urls" >>, << "api/views.py", "api_views" >> >>

check_django_app(t, pkg) ==
    LET has_views == pkg_isfile(t, "views.py") \/ pkg_isdir(t, "views")
        has_models_file == pkg_isfile(t, "models.py") \/ pkg_isdir(t, "models")
        has_models == has_models_file /\ t.model_classes
        PkgFile(name, file) == Opt(pkg_isfile(t, file), CheckResult(name, PASS))
        PkgFileOr(name, file, other) ==
            IF pkg_isfile(t, file) THEN << CheckResult(name, PASS) >>
            ELSE Opt(other, CheckResult(name, INFO))
        results ==
            << CheckResult("urls_py", IF pkg_isfile(t, "urls.py") THEN PASS ELSE INFO),
               CheckResult("views_py", IF has_views THEN PASS ELSE INFO),
               CheckResult("models_py", IF has_models_file THEN PASS ELSE INFO) >>
            \o (IF has_models
                THEN IF pkg_isdir(t, "migrations")
                     THEN << CheckResult("migrations_init",
                                 IF pkg_isfile(t, "migrations/__init__.py")
                                 THEN PASS ELSE ERROR),
                             CheckResult("migrations_count",
                                 IF t.migration_files THEN PASS ELSE WARNING) >>
                     ELSE << CheckResult("migrations_dir", WARNING) >>
                ELSE Opt(pkg_isdir(t, "migrations"), CheckResult("migrations_dir", PASS)))
            \o << CheckResult("navigation_py",
                      IF pkg_isfile(t, "navigation.py") THEN PASS ELSE INFO) >>
            \o PkgFileOr("tables_py", "tables.py", has_models)
            \o PkgFileOr("filtersets_py", "filtersets.py", has_models)
            \o PkgFileOr("forms_py", "forms.py", has_models /\ has_views)
            \o PkgFile("template_content_py", "template_content.py")
            \o PkgFile("graphql_py", "graphql.py")
            \o (IF pkg_isdir(t, "api")
                THEN << CheckResult("api_dir", PASS) >>
                     \o [ i \in 1..Len(API_FILES) |->
                            CheckResult(API_FILES[i][2],
                                IF pkg_isfile(t, API_FILES[i][1]) THEN PASS ELSE WARNING) ]
                ELSE Opt(has_models, CheckResult("api_dir", INFO)))
    IN  CategoryResult("Django Structure", "D",
            IF pkg = None THEN << CheckResult("package", ERROR) >> ELSE results)

(***************************************************************************)
(* checks/workflows.py                                                     *)
(*                                                                         *)
(* tree.workflows: the files of .github/workflows in sorted order, each    *)
(* with path, yml (the name ends in .yml or .yaml), keywords (which of     *)
(* "ci", "release" keyword lists its name matches), mentions (the          *)
(* substrings its text holds) and py_versions (distinct 3.1x, up to 2).    *)
(***************************************************************************)
CI_CONTENT ==
    { "super-linter", "super_linter", "ruff", "flake8", "black", "isort",
      "pre-commit", "pylint" }

RELEASE_CONTENT == { "pypi", "gh-action-pypi-publish", "twine upload" }

\* the index of the first file of wf from position i on that satisfies Hit, or 0
RECURSIVE FirstIndex(_, _, _)
FirstIndex(wf, Hit(_), i) ==
    IF i > Len(wf) THEN 0
    ELSE IF Hit(wf[i]) THEN i
    ELSE FirstIndex(wf, Hit, i + 1)

_find_workflow(t, keywords) ==
    FirstIndex(t.workflows, LAMBDA f : f.yml /\ keywords \in f.keywords, 1)

_find_workflow_by_content(t, content_patterns) ==
    FirstIndex(t.workflows,
        LAMBDA f : f.yml /\ ~Unreadable(t, f.path) /\ f.mentions \cap content_patterns # {},
        1)

CiPath(t) ==
    IF _find_workflow(t, "ci") # 0 THEN _find_workflow(t, "ci")
    ELSE _find_workflow_by_content(t, CI_CONTENT)

ReleasePath(t) ==
    IF _find_workflow(t, "release") # 0 THEN _find_workflow(t, "release")
    ELSE _find_workflow_by_content(t, RELEASE_CONTENT)

check_workflows_raises(t) ==
    /\ isdir(t, ".github/workflows")
    /\ \/ CiPath(t) # 0 /\ Unreadable(t, t.workflows[CiPath(t)].path)
       \/ ReleasePath(t) # 0 /\ Unreadable(t, t.workflows[ReleasePath(t)].path)

CiToolName(tool) ==
    CASE tool = "black" -> "ci_black"
      [] tool = "isort" -> "ci_isort"
      [] tool = "flake8" -> "ci_flake8"

CI_TOOLS == << "black", "isort", "flake8" >>

check_workflows(t, pkg) ==
    LET ci == CiPath(t)
        rel == ReleasePath(t)
        ci_content == t.workflows[ci].mentions
        rel_content == t.workflows[rel].mentions
        ci_results ==
            IF ci = 0 THEN << CheckResult("ci_exists", WARNING) >>
            ELSE
                << CheckResult("ci_exists", PASS) >>
                \o (IF "ruff" \in ci_content THEN << CheckResult("ci_ruff", PASS) >>
                    ELSE IF ci_content \cap { "super-linter", "super_linter" } # {}
                    THEN << CheckResult("ci_superlinter", PASS) >>
                    ELSE IF "pre-commit" \in ci_content
                    THEN << CheckResult("ci_precommit", PASS) >>
                    ELSE [ i \in 1..Len(CI_TOOLS) |->
                            CheckResult(CiToolName(CI_TOOLS[i]),
                                IF CI_TOOLS[i] \in ci_content THEN PASS ELSE WARNING) ])
                \o << CheckResult("ci_python_matrix",
                          CASE t.workflows[ci].py_versions >= 2 -> PASS
                            [] t.workflows[ci].py_versions = 1 -> WARNING
                            [] OTHER -> INFO),
                      CheckResult("ci_package",
                          IF { "build", "twine" } \subseteq ci_content THEN PASS ELSE INFO) >>
        rel_results ==
            IF rel = 0 THEN << CheckResult("release_exists", WARNING) >>
            ELSE
                << CheckResult("release_exists", PASS),
                   CheckResult("release_trigger",
                       IF "tag_trigger" \in rel_content THEN PASS ELSE WARNING),
                   CheckResult("release_pypi",
                       IF rel_content \cap { "pypi", "gh-action-pypi-publish" } # {}
                       THEN PASS ELSE INFO),
                   CheckResult("release_github",
                       IF rel_content \cap { "gh-release", "action-gh-release" } # {}
                       THEN PASS ELSE INFO) >>
    IN  CategoryResult("Workflows", "W",
            IF ~isdir(t, ".github/workflows")
            THEN << CheckResult("workflows_dir", WARNING) >>
            ELSE ci_results \o rel_results)

(***************************************************************************)
(* checks/security.py                                                      *)
(*                                                                         *)
(* tree.secrets, tree.verify_false, tree.missing_timeout: how many         *)
(* findings the three scans of the package's .py files make.               *)
(* tree.view_modules: views/ holds a module other than __init__.py.        *)
(* tree.view_permissions: a view file matches the permission patterns.     *)
(* tree.gitignore_env: ".env" occurs in .gitignore.                        *)
(***************************************************************************)
DANGEROUS_FILES ==
    << ".env", ".env.local", "credentials.json", "secrets.yml", "secrets.yaml" >>

Min(a, b) == IF a <= b THEN a ELSE b

\* n results of the same name and severity
Repeat(n, r) == [ i \in 1..n |-> r ]

check_security_raises(t, pkg) ==
    pkg # None /\ isfile(t, ".gitignore") /\ Unreadable(t, ".gitignore")

check_security(t, pkg) ==
    LET view_files == pkg_isfile(t, "views.py") \/ (pkg_isdir(t, "views") /\ t.view_modules)
        found_dangerous == SelectSeq(DANGEROUS_FILES, LAMBDA df : isfile(t, df))
        results ==
            (IF t.secrets = 0 THEN << CheckResult("no_secrets", PASS) >>
             ELSE Repeat(Min(t.secrets, 5), CheckResult("hardcoded_secret", WARNING)))
            \o (IF t.verify_false = 0 THEN << CheckResult("ssl_verify", PASS) >>
                ELSE Repeat(Min(t.verify_false, 3), CheckResult("ssl_verify", WARNING)))
            \o (IF t.missing_timeout = 0 THEN << CheckResult("request_timeout", PASS) >>
                ELSE Repeat(Min(t.missing_timeout, 3), CheckResult("request_timeout", WARNING))
                     \o Opt(t.missing_timeout > 3, CheckResult("request_timeout", WARNING)))
            \o Opt(view_files,
                   CheckResult("view_permissions",
                       IF t.view_permissions THEN PASS ELSE WARNING))
            \o (IF found_dangerous = << >> THEN << CheckResult("no_env_files", PASS) >>
                ELSE Repeat(Len(found_dangerous), CheckResult("env_file", WARNING)))
            \o Opt(isfile(t, ".gitignore"),
                   CheckResult("gitignore_env", IF t.gitignore_env THEN PASS ELSE INFO))
    IN  CategoryResult("Security", "S",
            IF pkg = None THEN << CheckResult("package", ERROR) >> ELSE results)

(***************************************************************************)
(* checks/certification.py                                                 *)
(*                                                                         *)
(* tree.license_compatible: the license text names a compatible license.   *)
(* tree.test_files: the test directory found holds test modules.           *)
(* The workflow files are read in the order of tree.workflows.             *)
(***************************************************************************)
CERT_LICENSES == << "LICENSE", "LICENSE.md", "LICENSE.txt" >>

ICON_PATHS ==
    { "icon.png", "docs/icon.png", "images/icon.png", "assets/icon.png", "static/icon.png",
      "icon.svg", "docs/icon.svg", "images/icon.svg", "assets/icon.svg", "static/icon.svg",
      "logo.png", "docs/logo.png", "images/logo.png", "assets/logo.png", "static/logo.png",
      "logo.svg", "docs/logo.svg", "images/logo.svg", "assets/logo.svg", "static/logo.svg" }

CONTRIB_FILES == { "CONTRIBUTING.md", "CONTRIBUTING.rst", ".github/CONTRIBUTING.md" }

\* the workflow file that shows CI running the tests, or 0
CiTestsIndex(t) ==
    FirstIndex(t.workflows, LAMBDA f : f.yml /\ "pytest" \in f.mentions, 1)

\* a workflow file read before the scan stops is undecodable
CiScanRaises(t) ==
    \E i \in 1..Len(t.workflows) :
        /\ t.workflows[i].yml
        /\ Unreadable(t, t.workflows[i].path)
        /\ \A j \in 1..(i - 1) :
              ~(t.workflows[j].yml /\ "pytest" \in t.workflows[j].mentions)

\* a text file the check reads cannot be decoded
CertReadRaises(t) ==
    \/ FirstFile(t, CERT_LICENSES) # None /\ Unreadable(t, FirstFile(t, CERT_LICENSES))
    \/ isfile(t, "README.md") /\ Unreadable(t, "README.md")
    \/ isdir(t, ".github/workflows") /\ CiScanRaises(t)
    \/ isfile(t, "CHANGELOG.md") /\ Unreadable(t, "CHANGELOG.md")

check_certification_raises(t, pkg) ==
    \/ CertReadRaises(t)
    \/ isfile(t, "pyproject.toml") /\ t.pyproject.parse = "malformed"

check_certification(t, pkg) ==
    LET has_tests ==
            \/ pkg # None /\ (pkg_isdir(t, "tests") \/ pkg_isdir(t, "test"))
            \/ isdir(t, "tests") \/ isdir(t, "test")
        ci_runs_tests == isdir(t, ".github/workflows") /\ CiTestsIndex(t) # 0
        project == t.pyproject
    IN  CategoryResult("Certification", "T",
            (IF FirstFile(t, CERT_LICENSES) # None
             THEN << CheckResult("license_file", PASS),
                     CheckResult("license_osi",
                         IF t.license_compatible THEN PASS ELSE WARNING) >>
             ELSE << CheckResult("license_file", ERROR) >>)
            \o (IF isfile(t, "README.md")
                THEN << ReadmeSection(t, "compat_matrix", WARNING),
                        ReadmeSection(t, "deps_documented", INFO),
                        CheckResult("screenshots",
                            IF "cert_screenshots" \in t.readme THEN PASS ELSE WARNING),
                        ReadmeSection(t, "install_docs", WARNING),
                        ReadmeSection(t, "support_info", INFO) >>
                ELSE << CheckResult("readme_cert", ERROR) >>)
            \o << CheckResult("icon",
                      IF \E p \in ICON_PATHS : isfile(t, p) THEN PASS ELSE INFO),
                  CheckResult("tests_exist",
                      IF has_tests /\ t.test_files THEN PASS ELSE WARNING),
                  CheckResult("ci_tests", IF ci_runs_tests THEN PASS ELSE WARNING) >>
            \o (IF isfile(t, "CHANGELOG.md")
                THEN << CheckResult("breaking_changes",
                            IF t.changelog.breaking THEN PASS ELSE INFO) >>
                ELSE << CheckResult("changelog_cert", WARNING) >>)
            \o << CheckResult("contributing",
                      IF \E f \in CONTRIB_FILES : isfile(t, f) THEN PASS ELSE INFO) >>
            \o (IF isfile(t, "pyproject.toml")
                THEN << CheckResult("pypi_license",
                            IF project.license # "none" THEN PASS ELSE WARNING),
                        CheckResult("pypi_urls",
                            IF project.urls # {} THEN PASS ELSE WARNING) >>
                ELSE << >>))

(***************************************************************************)
(* checks/github.py                                                        *)
(*                                                                         *)
(* env.repo_api: the repository API call, "fail" or "ok"; env.repo: what   *)
(* it returned, as the classes the code tells apart:                       *)
(*   archived; pushed "none" / "active" / "stale" / "dead"; has_issues;    *)
(*   open_issues "few" (<= 20) or "many"; stale_issue "none" / "fresh" /   *)
(*   "mid" / "old"; prs "fail" / "zero" / "few" (<= 5) / "many" /          *)
(*   "countfail"; default_branch "standard" / "other" / "empty"            *)
(***************************************************************************)
check_github(e, pkg) ==
    LET r == e.repo
        results ==
            << CheckResult("archived", IF r.archived THEN ERROR ELSE PASS) >>
            \o Opt(r.pushed # "none",
                   CheckResult("last_push",
                       CASE r.pushed = "active" -> PASS
                         [] r.pushed = "stale" -> WARNING
                         [] OTHER -> ERROR))
            \o << CheckResult("community", PASS) >>
            \o (IF ~r.has_issues THEN << CheckResult("issues_enabled", INFO) >>
                ELSE << CheckResult("issues_enabled", PASS),
                        CheckResult("open_issues",
                            IF r.open_issues = "few" THEN PASS ELSE WARNING) >>
                     \o Opt(r.stale_issue # "none",
                            CheckResult("stale_issues",
                                CASE r.stale_issue = "old" -> WARNING
                                  [] r.stale_issue = "mid" -> INFO
                                  [] OTHER -> PASS)))
            \o Opt(r.prs \in { "zero", "few", "many" },
                   CheckResult("open_prs", IF r.prs = "many" THEN WARNING ELSE PASS))
            \o Opt(r.default_branch # "empty",
                   CheckResult("default_branch",
                       IF r.default_branch = "standard" THEN PASS ELSE INFO))
    IN  CategoryResult("GitHub Health", "G",
            IF ~e.github_repo THEN << CheckResult("github_repo", INFO) >>
            ELSE IF e.repo_api = "fail" THEN << CheckResult("github_api", INFO) >>
            ELSE results)

(***************************************************************************)
(* checks/linting.py                                                       *)
(*                                                                         *)
(* env.ruff: `ruff --version` succeeds.  env.tools: the outcome of each    *)
(* tool run: "ok" (exit 0), "fail" (another exit status), "missing"        *)
(* (FileNotFoundError, rc -1) or "timeout" (TimeoutExpired, rc -2).        *)
(***************************************************************************)
\* _run_tool's return code
_run_tool(e, tool) ==
    CASE e.tools[tool] = "ok" -> 0
      [] e.tools[tool] = "missing" -> -1
      [] e.tools[tool] = "timeout" -> -2
      [] OTHER -> 1

_check_ruff_available(e) == e.ruff

\* PASS on rc 0, otherwise WARNING
RuffResult(e, name, tool) ==
    CheckResult(name, IF _run_tool(e, tool) = 0 THEN PASS ELSE WARNING)

\* a variant without the test for rc -1
tool_missing_is_warning(e, tool) ==
    CheckResult(tool, IF _run_tool(e, tool) = 0 THEN PASS ELSE WARNING)

\* PASS on rc 0, INFO on rc -1, otherwise WARNING
ToolResult(e, tool) ==
    CheckResult(tool,
        CASE _run_tool(e, tool) = 0 -> PASS
          [] _run_tool(e, tool) = -1 -> INFO
          [] OTHER -> WARNING)

check_linting(t, e, pkg) ==
    CategoryResult("Linting", "Q",
        IF pkg = None THEN << CheckResult("package", ERROR) >>
        ELSE IF ~isdir(t, pkg) THEN << CheckResult("package", ERROR) >>
        ELSE
            (IF _check_ruff_available(e)
             THEN << RuffResult(e, "ruff_check", "ruff_check"),
                     RuffResult(e, "ruff_format", "ruff_format") >>
             ELSE << >>)
            \o << ToolResult(e, "black"), ToolResult(e, "isort"), ToolResult(e, "flake8") >>)

\* the commands check_linting runs, in order
linting_calls(t, e, pkg) ==
    IF pkg = None THEN << >>
    ELSE IF ~isdir(t, pkg) THEN << >>
    ELSE << "ruff --version" >>
         \o (IF _check_ruff_available(e) THEN << "ruff check", "ruff format" >> ELSE << >>)
         \o << "black", "isort", "flake8" >>

(***************************************************************************)
(* checks/packaging.py                                                     *)
(*                                                                         *)
(* env.tools["build"], env.tools["twine"]: as above.  env.built: which of  *)
(* "whl", "tar" the build left.  env.pypi: the package index call,         *)
(* "found", "notfound" (HTTP 404), "httperror" or "error"; pypi_version    *)
(* "same" / "differ" / "none"; pypi_urls.                                  *)
(***************************************************************************)
_check_pypi(t, e) ==
    IF ~isfile(t, "pyproject.toml") THEN << >>
    ELSE IF t.pyproject.parse = "malformed" THEN << >>
    ELSE IF "name" \notin t.pyproject.keys THEN << >>
    ELSE IF e.pypi # "found" THEN << CheckResult("pypi_exists", INFO) >>
    ELSE << CheckResult("pypi_exists", PASS) >>
         \o Opt(t.pyproject.version # NoVersion /\ e.pypi_version # "none",
                CheckResult("pypi_version", IF e.pypi_version = "same" THEN PASS ELSE INFO))
         \o << CheckResult("pypi_project_urls", IF e.pypi_urls THEN PASS ELSE WARNING) >>

\* a variant that does not look for the manifest and lets the build fail
packaging_builds_anyway(t, e) ==
    CategoryResult("Packaging", "B",
        << CheckResult("build", IF isfile(t, "pyproject.toml") THEN PASS ELSE ERROR) >>
        \o _check_pypi(t, e))

check_packaging(t, e) ==
    LET build == e.tools["build"]
        twine == e.tools["twine"]
        built ==
            CASE build = "missing" -> << CheckResult("build", INFO) >>
              [] build = "timeout" -> << CheckResult("build", WARNING) >>
              [] build = "fail" -> << CheckResult("build", ERROR) >>
              [] OTHER ->
                    << CheckResult("build", PASS),
                       CheckResult("wheel", IF "whl" \in e.built THEN PASS ELSE WARNING),
                       CheckResult("sdist", IF "tar" \in e.built THEN PASS ELSE INFO) >>
                    \o (CASE twine = "ok" -> << CheckResult("twine", PASS) >>
                          [] twine = "fail" -> << CheckResult("twine", WARNING) >>
                          [] twine = "missing" -> << CheckResult("twine", INFO) >>
                          [] OTHER -> << CheckResult("build", WARNING) >>)
    IN  CategoryResult("Packaging", "B",
            IF ~isfile(t, "pyproject.toml") THEN << CheckResult("pyproject", ERROR) >>
            ELSE built \o _check_pypi(t, e))

\* the commands and requests check_packaging makes, in order
packaging_calls(t, e) ==
    IF ~isfile(t, "pyproject.toml") THEN << >>
    ELSE << "build" >>
         \o Opt(e.tools["build"] = "ok", "twine")
         \o Opt(t.pyproject.parse # "malformed" /\ "name" \in t.pyproject.keys, "pypi")

(***************************************************************************)
(* auditor.py: package discovery                                           *)
(*                                                                         *)
(* ROOT_NAMES lists the names a root directory of the model may hold, in   *)
(* lexicographic (code point) order, which is the order of sorted().       *)
(* tree.inits: the directories of the root that hold an __init__.py file.  *)
(***************************************************************************)
ROOT_NAMES ==
    << ".editorconfig", ".env", ".github", ".gitignore", ".pre-commit-config.yaml",
       "CHANGELOG.md", "CHANGELOG.rst", "COMPATIBILITY.md", "CONTRIBUTING.md", "LICENSE",
       "README.md", "docs", "mkdocs.yml", "netbox_a", "netbox_b", "netbox_c.py",
       "netbox_d", "plugin_e", "pyproject.toml", "setup.py", "tests" >>

\* entry.startswith("netbox_")
StartsWithNetbox(entry) == entry \in { "netbox_a", "netbox_b", "netbox_c.py", "netbox_d" }

\* sorted(os.listdir(plugin_path))
SortedListing(t) == SelectSeq(ROOT_NAMES, LAMBDA n : n \in t.files \cup t.dirs)

\* a variant that does not look for __init__.py
RECURSIVE first_netbox_directory(_, _)
first_netbox_directory(t, entries) ==
    IF entries = << >> THEN None
    ELSE IF isdir(t, Head(entries)) /\ StartsWithNetbox(Head(entries)) THEN Head(entries)
    ELSE first_netbox_directory(t, Tail(entries))

RECURSIVE FirstPackage(_, _)
FirstPackage(t, entries) ==
    IF entries = << >> THEN None
    ELSE IF /\ isdir(t, Head(entries))
            /\ StartsWithNetbox(Head(entries))
            /\ Head(entries) \in t.inits
         THEN Head(entries)
    ELSE FirstPackage(t, Tail(entries))

_detect_plugin_package(t) == FirstPackage(t, SortedListing(t))

(***************************************************************************)
(* Source trees and environments the runs are drawn from                   *)
(***************************************************************************)
ATTRS ==
    { "name", "verbose_name", "description", "version", "base_url", "min_version",
      "author", "author_email", "max_version", "default_settings" }

Literal(v) == [ level |-> "top", kind |-> "str", val |-> v ]
Nested(v) == [ level |-> "nested", kind |-> "str", val |-> v ]
Number(v) == [ level |-> "top", kind |-> "num", val |-> v ]
Expression == [ level |-> "top", kind |-> "expr", val |-> NoVersion ]

Heading(h, b, v, d) ==
    [ hashes |-> h, bracket |-> b, ver |-> v, dated |-> d, date_ok |-> d ]

GoodConfig ==
    [ class |-> TRUE, assignment |-> "same",
      attrs |-> [ a \in ATTRS |-> IF a = "default_settings" THEN "present" ELSE "str" ],
      name_is_pkg |-> TRUE, email_valid |-> TRUE, base_url_safe |-> TRUE,
      min_version |-> "ge4", ready_imports_widgets |-> TRUE ]

PoorConfig ==
    [ class |-> TRUE, assignment |-> "other",
      attrs |-> [ a \in ATTRS |->
                    CASE a \in { "name", "author_email", "base_url", "min_version" } -> "str"
                      [] a = "version" -> "ref"
                      [] OTHER -> "absent" ],
      name_is_pkg |-> FALSE, email_valid |-> FALSE, base_url_safe |-> FALSE,
      min_version |-> "lt4", ready_imports_widgets |-> FALSE ]

NoConfig == [ PoorConfig EXCEPT !.class = FALSE ]

GoodInit ==
    [ read |-> "ok", assigns |-> << Literal(V123) >>, imports_version |-> FALSE,
      txt_importlib |-> FALSE, txt_mdversion |-> FALSE, config |-> GoodConfig ]

NoVerpy == [ read |-> "ok", assigns |-> << >> ]

GoodPyproject ==
    [ parse |-> "ok", version |-> V123, build |-> "setuptools", project |-> TRUE,
      keys |-> { "name", "version", "description", "readme", "requires-python", "authors",
                 "license", "classifiers", "keywords", "dependencies" },
      license |-> "apache", reqpy |-> "modern", classifiers |-> { "django", "py3" },
      urls |-> { "Homepage", "Repository", "Issues", "Documentation", "Changelog" },
      dev |-> TRUE, dev_tools |-> { "black", "flake8", "isort" },
      tool |-> { "find", "package-data", "black", "isort" },
      isort_black |-> TRUE, line_length |-> "match" ]

PoorPyproject ==
    [ parse |-> "ok", version |-> NoVersion, build |-> "other", project |-> TRUE,
      keys |-> { "name", "license", "requires-python" },
      license |-> "other", reqpy |-> "old", classifiers |-> {}, urls |-> {},
      dev |-> FALSE, dev_tools |-> {}, tool |-> { "black", "isort" },
      isort_black |-> FALSE, line_length |-> "differ" ]

EmptyPyproject ==
    [ PoorPyproject EXCEPT !.build = "absent", !.project = FALSE, !.keys = {},
                           !.license = "none", !.reqpy = "none", !.tool = {} ]

GoodChangelog ==
    [ header |-> "changelog", unreleased |-> TRUE,
      lines |-> << Heading(2, TRUE, V123, TRUE) >>,
      subsections |-> TRUE, keepref |-> TRUE, breaking |-> TRUE ]

NoChangelog ==
    [ header |-> "none", unreleased |-> FALSE, lines |-> << >>,
      subsections |-> FALSE, keepref |-> FALSE, breaking |-> FALSE ]

README_FACTS ==
    { "len500", "features", "install", "configuration", "requirements", "badges",
      "screenshots", "compat_matrix", "deps_documented", "cert_screenshots",
      "install_docs", "support_info" }

CiWorkflow ==
    [ path |-> ".github/workflows/ci.yml", yml |-> TRUE, keywords |-> { "ci" },
      mentions |-> { "ruff", "build", "twine", "pytest" }, py_versions |-> 2 ]

ReleaseWorkflow ==
    [ path |-> ".github/workflows/release.yml", yml |-> TRUE, keywords |-> { "release" },
      mentions |-> { "tag_trigger", "pypi", "gh-release" }, py_versions |-> 0 ]

\* a workflow found by its content only, with the classic linters
MainWorkflow ==
    [ path |-> ".github/workflows/main.yml", yml |-> TRUE, keywords |-> {},
      mentions |-> { "black", "flake8", "twine upload", "twine" }, py_versions |-> 1 ]

\* a complete plugin that every check passes
FullTree ==
    [ files |-> { "pyproject.toml", "README.md", ".gitignore", "LICENSE", "CHANGELOG.md",
                  "CONTRIBUTING.md", "COMPATIBILITY.md", ".editorconfig",
                  ".pre-commit-config.yaml", "mkdocs.yml", "docs/icon.png" },
      dirs |-> { "docs", ".github", ".github/workflows", "tests", "netbox_a" },
      inits |-> { "netbox_a" },
      pkg_files |-> { "__init__.py", "urls.py", "views.py", "models.py", "navigation.py",
                      "tables.py", "filtersets.py", "forms.py", "template_content.py",
                      "graphql.py", "widgets.py", "api/__init__.py", "api/serializers.py",
                      "api/urls.py", "api/views.py", "migrations/__init__.py" },
      pkg_dirs |-> { "templates", "migrations", "api" },
      undecodable |-> {},
      init |-> GoodInit, verpy |-> NoVerpy, pyproject |-> GoodPyproject,
      changelog |-> GoodChangelog, readme |-> README_FACTS,
      workflows |-> << CiWorkflow, ReleaseWorkflow >>,
      model_classes |-> TRUE, migration_files |-> TRUE, widget_classes |-> TRUE,
      secrets |-> 0, verify_false |-> 0, missing_timeout |-> 0,
      view_modules |-> FALSE, view_permissions |-> TRUE, gitignore_env |-> TRUE,
      license_compatible |-> TRUE, test_files |-> TRUE ]

\* a plugin with a package and the files a check reads, all of them poor
PoorTree ==
    [ files |-> { "pyproject.toml", "README.md", ".gitignore", "LICENSE", "CHANGELOG.md",
                  "setup.py", ".env" },
      dirs |-> { ".github", ".github/workflows", "netbox_b", "netbox_d", "plugin_e" },
      inits |-> { "netbox_b", "plugin_e" },
      pkg_files |-> { "__init__.py", "views.py", "models.py", "widgets.py" },
      pkg_dirs |-> { "api" },
      undecodable |-> {},
      init |-> [ GoodInit EXCEPT !.assigns = << >>, !.config = PoorConfig ],
      verpy |-> NoVerpy, pyproject |-> PoorPyproject,
      changelog |-> [ NoChangelog EXCEPT !.header = "other",
                                        !.lines = << Heading(2, TRUE, V120, FALSE) >> ],
      readme |-> {},
      workflows |-> << MainWorkflow >>,
      model_classes |-> TRUE, migration_files |-> FALSE, widget_classes |-> TRUE,
      secrets |-> 1, verify_false |-> 1, missing_timeout |-> 1,
      view_modules |-> FALSE, view_permissions |-> FALSE, gitignore_env |-> FALSE,
      license_compatible |-> FALSE, test_files |-> FALSE ]

\* an empty directory
BareTree ==
    [ files |-> {}, dirs |-> {}, inits |-> {}, pkg_files |-> {}, pkg_dirs |-> {},
      undecodable |-> {},
      init |-> [ GoodInit EXCEPT !.assigns = << >>, !.config = NoConfig ],
      verpy |-> NoVerpy, pyproject |-> EmptyPyproject, changelog |-> NoChangelog,
      readme |-> {}, workflows |-> << >>,
      model_classes |-> FALSE, migration_files |-> FALSE, widget_classes |-> FALSE,
      secrets |-> 0, verify_false |-> 0, missing_timeout |-> 0,
      view_modules |-> FALSE, view_permissions |-> FALSE, gitignore_env |-> FALSE,
      license_compatible |-> FALSE, test_files |-> FALSE ]

\* a repository with documents and no netbox_* package
DocsTree ==
    [ FullTree EXCEPT !.dirs = { "docs", ".github", ".github/workflows", "tests", "plugin_e" },
                      !.files = @ \cup { "netbox_c.py" },
                      !.inits = { "plugin_e" }, !.pkg_files = {}, !.pkg_dirs = {} ]

TOOLS == { "ruff_check", "ruff_format", "black", "isort", "flake8", "build", "twine" }

HealthyRepo ==
    [ archived |-> FALSE, pushed |-> "active", has_issues |-> TRUE, open_issues |-> "few",
      stale_issue |-> "fresh", prs |-> "few", default_branch |-> "standard" ]

StaleRepo ==
    [ archived |-> TRUE, pushed |-> "dead", has_issues |-> TRUE, open_issues |-> "many",
      stale_issue |-> "old", prs |-> "many", default_branch |-> "other" ]

\* everything installed and reachable, nothing to report
GoodEnv ==
    [ github_repo |-> TRUE, releases |-> "body", repo_api |-> "ok", repo |-> HealthyRepo,
      ruff |-> TRUE, tools |-> [ x \in TOOLS |-> "ok" ], built |-> { "whl", "tar" },
      pypi |-> "found", pypi_version |-> "same", pypi_urls |-> TRUE ]

\* no network and no tool installed
OfflineEnv ==
    [ GoodEnv EXCEPT !.github_repo = FALSE, !.releases = "error", !.repo_api = "fail",
                     !.ruff = FALSE, !.tools = [ x \in TOOLS |-> "missing" ],
                     !.built = {}, !.pypi = "error" ]

\* every tool times out
TimeoutEnv ==
    [ GoodEnv EXCEPT !.repo_api = "fail", !.releases = "nobody",
                     !.tools = [ x \in TOOLS |-> "timeout" ], !.pypi = "httperror" ]

\* every tool reports problems, the repository is neglected
FailEnv ==
    [ GoodEnv EXCEPT !.repo = StaleRepo, !.releases = "none",
                     !.tools = [ x \in TOOLS |-> "fail" ], !.built = {},
                     !.pypi = "notfound" ]

\* the build succeeds and twine times out
TwineTimeoutEnv ==
    [ GoodEnv EXCEPT !.tools = [ x \in TOOLS |-> IF x = "twine" THEN "timeout" ELSE "ok" ],
                     !.built = { "whl" }, !.pypi_version = "differ", !.pypi_urls = FALSE ]

Envs == { GoodEnv, OfflineEnv, TimeoutEnv, FailEnv, TwineTimeoutEnv }

(***************************************************************************)
(* auditor.py: audit_plugin, and cli.py: main                              *)
(*                                                                         *)
(* The state of one run of the command.  pc is the statement about to run. *)
(* tmpdir is the directory mkdtemp makes ("absent" before), localdir the   *)
(* directory a local source names.                                         *)
(***************************************************************************)
SRC_URL == "https://github.com/owner/plugin"
SRC_DIR == "./plugin"
SRC_MISSING == "./missing"

\* source.startswith("http://") or ... "https://" ... "git@"
IsUrl(s) == s = SRC_URL

\* sum(F(c) for c in categories)
Sum(cats, F(_)) ==
    LET upto[i \in 0..Len(cats)] == IF i = 0 THEN 0 ELSE upto[i - 1] + F(cats[i])
    IN  upto[Len(cats)]

\* a summary that keeps the counts of the last category only
summary_of_last(cats) ==
    IF cats = << >>
    THEN [ total |-> 0, passed |-> 0, errors |-> 0, warnings |-> 0, infos |-> 0 ]
    ELSE [ total |-> total(cats[Len(cats)]), passed |-> passed(cats[Len(cats)]),
           errors |-> errors(cats[Len(cats)]), warnings |-> warnings(cats[Len(cats)]),
           infos |-> infos(cats[Len(cats)]) ]

\* a summary that leaves the infos out
SummaryWithoutInfos(cats) ==
    [ total |-> Sum(cats, total), passed |-> Sum(cats, passed),
      errors |-> Sum(cats, errors), warnings |-> Sum(cats, warnings), infos |-> 0 ]

Summary(cats) ==
    [ total |-> Sum(cats, total), passed |-> Sum(cats, passed),
      errors |-> Sum(cats, errors), warnings |-> Sum(cats, warnings),
      infos |-> Sum(cats, infos) ]

\* a fatal dict whose summary counts nothing
FatalReportWithoutError(src) ==
    [ plugin_name |-> src, version |-> NoVersion, categories |-> << >>,
      summary |-> [ total |-> 0, passed |-> 0, errors |-> 0, warnings |-> 0, infos |-> 0 ],
      error |-> "Failed to clone" ]

\* the dict returned when the clone fails
FatalReport(src) ==
    [ plugin_name |-> src, version |-> NoVersion, categories |-> << >>,
      summary |-> [ total |-> 0, passed |-> 0, errors |-> 1, warnings |-> 0, infos |-> 0 ],
      error |-> "Failed to clone" ]

\* no dict returned yet
NoReport ==
    [ plugin_name |-> None, version |-> NoVersion, categories |-> << >>,
      summary |-> Summary(<< >>), error |-> None ]

\* os.path.basename(plugin_path.rstrip("/"))
basename(path) == IF path = "tmpdir" THEN "nbaudit_tmp" ELSE "plugin"

(***************************************************************************)
(* report.py: the pass percentage of format_terminal and format_markdown   *)
(*                                                                         *)
(* Both compute round(passed / total * 100) on Python floats, which are    *)
(* IEEE 754 doubles: the quotient is rounded to 53 significant bits, the   *)
(* product with 100 is rounded again, and round() takes the nearest        *)
(* integer, the even one of two equally near.  With q = passed / total     *)
(* exactly, the first rounding gives q + err.num / (total * 2^(exp + 52)), *)
(* where the leading bit of q is 2^-exp.  When 100 * q is not halfway      *)
(* between two integers it is at least 1 / (2 * total) away from halfway,  *)
(* far more than the two roundings move it, and round() gives the nearest  *)
(* integer to 100 * q.  When 100 * q is k + 1/2 the product is rounded to  *)
(* k + 1/2 itself or to the double below or above it, by the size of the   *)
(* first error against half the gap between neighbouring doubles.          *)
(***************************************************************************)
RECURSIVE Pow2(_)
Pow2(n) == IF n = 0 THEN 1 ELSE 2 * Pow2(n - 1)

\* floor(log2(n)) for n >= 1
RECURSIVE Log2(_)
Log2(n) == IF n < 2 THEN 0 ELSE 1 + Log2(n \div 2)

\* the least e >= from with passed * 2^e >= total: passed / total is in
\* [2^-e, 2^(1 - e))
RECURSIVE Exponent(_, _, _)
Exponent(npassed, ntotal, from) ==
    IF npassed * Pow2(from) >= ntotal THEN from ELSE Exponent(npassed, ntotal, from + 1)

\* (r * 2^n) mod total, and the last quotient bit produced on the way
RECURSIVE LongDivision(_, _, _, _)
LongDivision(r, last, ntotal, n) ==
    IF n = 0 THEN [ rem |-> r, last |-> last ]
    ELSE LongDivision((2 * r) % ntotal, IF 2 * r >= ntotal THEN 1 ELSE 0, ntotal, n - 1)

\* passed / total as a double, 0 < passed <= total: the exponent and the
\* error of the rounding to nearest, ties to even, in units of
\* 1 / (total * 2^(exp + 52))
true_div(npassed, ntotal) ==
    LET exp == Exponent(npassed, ntotal, 0)
        d == LongDivision(npassed % ntotal, 1, ntotal, exp + 52)
    IN  [ exp |-> exp,
          num |-> IF 2 * d.rem < ntotal THEN -d.rem
                  ELSE IF 2 * d.rem > ntotal THEN ntotal - d.rem
                  ELSE IF d.last = 0 THEN -d.rem ELSE ntotal - d.rem ]

\* the double passed / total * 100 against k + 1/2 = 100 * passed / total:
\* -1 below, 0 equal, 1 above.  The doubles next to k + 1/2 are 2^(j - 52)
\* away, j = floor(log2(k + 1/2)), and half as far below a power of two.
times_100(npassed, ntotal, k) ==
    LET q == true_div(npassed, ntotal)
        j == IF k = 0 THEN -1 ELSE Log2(k)
        half_gap == ntotal * Pow2(j + q.exp - 1)
    IN  IF 100 * q.num > half_gap THEN 1
        ELSE IF k = 0 /\ 200 * (-q.num) > half_gap THEN -1
        ELSE IF k # 0 /\ 100 * (-q.num) > half_gap THEN -1
        ELSE 0

\* pct = round(passed / total * 100) if total > 0 else 0
pct(npassed, ntotal) ==
    IF ~(ntotal > 0) THEN 0
    ELSE LET k == (100 * npassed) \div ntotal
             rest == (100 * npassed) % ntotal
         IN  IF 2 * rest < ntotal THEN k
             ELSE IF 2 * rest > ntotal THEN k + 1
             ELSE CASE times_100(npassed, ntotal, k) < 0 -> k
                    [] times_100(npassed, ntotal, k) > 0 -> k + 1
                    [] OTHER -> IF k % 2 = 0 THEN k ELSE k + 1

\* the percentage in the summary line of each renderer, -1 when the result
\* has an error and the renderer returns before the summary
format_terminal(result) ==
    IF result.error # None THEN -1 ELSE pct(result.summary.passed, result.summary.total)

format_markdown(result) ==
    IF result.error # None THEN -1 ELSE pct(result.summary.passed, result.summary.total)

\* cli.py: --format
FORMATS == { "terminal", "json", "markdown" }

\* the percentage main() prints; format_json prints none
Printed(format, result) ==
    CASE format = "json" -> -1
      [] format = "markdown" -> format_markdown(result)
      [] OTHER -> format_terminal(result)

\* an exit status that does not look at strict
ExitCodeWithoutStrict(result, strict_flag) ==
    IF result.error # None THEN 1
    ELSE IF result.summary.errors > 0 THEN 1
    ELSE 0

\* the exit status main() chooses for a returned result
ExitCode(result, strict_flag) ==
    IF result.error # None THEN 1
    ELSE IF strict_flag /\ (result.summary.errors > 0 \/ result.summary.warnings > 0) THEN 1
    ELSE IF result.summary.errors > 0 THEN 1
    ELSE 0

\* the state at the first statement of main(), for one choice of inputs
Start(src, t, e, lint, build, s) ==
    /\ pc = "start"
    /\ source = src
    /\ tree = t
    /\ env = e
    /\ skip_lint = lint
    /\ skip_build = build
    /\ strict = s
    /\ cleanup = FALSE
    /\ plugin_path = src
    /\ tmpdir = "absent"
    /\ localdir = IF src = SRC_DIR THEN "exists" ELSE "absent"
    /\ pkg_dir = None
    /\ version = NoVersion
    /\ categories = << >>
    /\ report = NoReport
    /\ raised = None
    /\ exit_code = -1
    /\ cat = CategoryResult("", "", << >>)
    /\ shown = -1

\* tempfile.mkdtemp and _clone_repo: git exits 0 or not, times out, or is not installed
Clone ==
    /\ pc = "start"
    /\ IsUrl(source)
    /\ tmpdir' = "exists"
    /\ cleanup' = TRUE
    /\ \E outcome \in { "ok", "nonzero", "timeout", "nogit" } :
         CASE outcome = "ok" ->
                /\ plugin_path' = "tmpdir"
                /\ pc' = "detect"
                /\ UNCHANGED << report, raised >>
           [] outcome = "nonzero" ->
                /\ report' = FatalReport(source)
                /\ pc' = "returned"
                /\ UNCHANGED << plugin_path, raised >>
           [] outcome = "timeout" ->
                /\ raised' = "TimeoutExpired"
                /\ pc' = "raised"
                /\ UNCHANGED << plugin_path, report >>
           [] outcome = "nogit" ->
                /\ raised' = "FileNotFoundError"
                /\ pc' = "raised"
                /\ UNCHANGED << plugin_path, report >>
    /\ UNCHANGED << source, tree, env, skip_lint, skip_build, strict, localdir, pkg_dir,
                    version, categories, exit_code, cat, shown >>

\* a source that is no URL is used where it is
UseLocal ==
    /\ pc = "start"
    /\ ~IsUrl(source)
    /\ pc' = "detect"
    /\ UNCHANGED << source, tree, env, skip_lint, skip_build, strict, cleanup, plugin_path,
                    tmpdir, localdir, pkg_dir, version, categories, report, raised,
                    exit_code, cat, shown >>

\* pkg_dir = _detect_plugin_package(plugin_path); os.listdir raises on a missing path
Detect ==
    /\ pc = "detect"
    /\ IF plugin_path = SRC_MISSING
       THEN /\ raised' = "FileNotFoundError"
            /\ pc' = "finally"
            /\ UNCHANGED pkg_dir
       ELSE /\ pkg_dir' = _detect_plugin_package(tree)
            /\ pc' = "version"
            /\ UNCHANGED raised
    /\ UNCHANGED << source, tree, env, skip_lint, skip_build, strict, cleanup, plugin_path,
                    tmpdir, localdir, version, categories, report, exit_code, cat, shown >>

\* version = _get_plugin_version(plugin_path, pkg_dir) if pkg_dir else None
GetVersion ==
    /\ pc = "version"
    /\ version' = IF pkg_dir # None THEN _get_plugin_version(tree, pkg_dir) ELSE NoVersion
    /\ pc' = "structure"
    /\ UNCHANGED << source, tree, env, skip_lint, skip_build, strict, cleanup, plugin_path,
                    tmpdir, localdir, pkg_dir, categories, report, raised, exit_code, cat, shown >>

\* a variant in which the categories share one results list, as a mutable
\* default argument would make them
run_check_shared(here, next, faults, exc, result) ==
    /\ pc = here
    /\ IF faults
       THEN /\ raised' = exc
            /\ pc' = "finally"
            /\ UNCHANGED categories
       ELSE /\ categories' =
                 LET shared == IF categories = << >> THEN result.results
                               ELSE categories[1].results \o result.results
                 IN  [ k \in 1..Len(categories) |-> [ categories[k] EXCEPT !.results = shared ] ]
                         \o << [ result EXCEPT !.results = shared ] >>
            /\ pc' = next
            /\ UNCHANGED raised
    /\ UNCHANGED << source, tree, env, skip_lint, skip_build, strict, cleanup, plugin_path,
                    tmpdir, localdir, pkg_dir, version, report, exit_code, cat, shown >>

\* categories.append(check(...)): the check returns its category, or an
\* exception escapes it and the try block is left
RunCheck(here, next, faults, exc, result) ==
    /\ pc = here
    /\ IF faults
       THEN /\ raised' = exc
            /\ pc' = "finally"
            /\ UNCHANGED categories
       ELSE /\ categories' = Append(categories, result)
            /\ pc' = next
            /\ UNCHANGED raised
    /\ UNCHANGED << source, tree, env, skip_lint, skip_build, strict, cleanup, plugin_path,
                    tmpdir, localdir, pkg_dir, version, report, exit_code, cat, shown >>

\* a check that a flag turns off
SkipCheck(here, next) ==
    /\ pc = here
    /\ pc' = next
    /\ UNCHANGED << source, tree, env, skip_lint, skip_build, strict, cleanup, plugin_path,
                    tmpdir, localdir, pkg_dir, version, categories, report, raised,
                    exit_code, cat, shown >>

Structure ==
    RunCheck("structure", "pluginconfig", FALSE, None, check_structure(tree, pkg_dir))

PluginConfig ==
    RunCheck("pluginconfig", "pyproject", check_pluginconfig_raises(tree, pkg_dir),
             "UnicodeDecodeError", check_pluginconfig(tree, pkg_dir))

Pyproject ==
    RunCheck("pyproject", "versioning", FALSE, None, check_pyproject(tree, pkg_dir))

Versioning ==
    RunCheck("versioning", "changelog", FALSE, None, check_versioning(tree, pkg_dir))

Changelog ==
    RunCheck("changelog", "readme", check_changelog_raises(tree),
             "UnicodeDecodeError", check_changelog(tree, env))

Readme ==
    RunCheck("readme", "django_app", check_readme_raises(tree),
             "UnicodeDecodeError", check_readme(tree))

DjangoApp ==
    RunCheck("django_app", "workflows", FALSE, None, check_django_app(tree, pkg_dir))

Workflows ==
    RunCheck("workflows", "security", check_workflows_raises(tree),
             "UnicodeDecodeError", check_workflows(tree, pkg_dir))

Security ==
    RunCheck("security", "certification", check_security_raises(tree, pkg_dir),
             "UnicodeDecodeError", check_security(tree, pkg_dir))

Certification ==
    RunCheck("certification", "github", check_certification_raises(tree, pkg_dir),
             IF CertReadRaises(tree) THEN "UnicodeDecodeError" ELSE "TOMLDecodeError",
             check_certification(tree, pkg_dir))

Github ==
    RunCheck("github", "linting", FALSE, None, check_github(env, pkg_dir))

\* a variant that takes no notice of skip_lint
linting_always ==
    RunCheck("linting", "packaging", FALSE, None, check_linting(tree, env, pkg_dir))

\* if not skip_lint: categories.append(check_linting(...))
Linting ==
    IF skip_lint THEN SkipCheck("linting", "packaging")
    ELSE RunCheck("linting", "packaging", FALSE, None, check_linting(tree, env, pkg_dir))

\* if not skip_build: categories.append(check_packaging(...))
Packaging ==
    IF skip_build THEN SkipCheck("packaging", "summary")
    ELSE RunCheck("packaging", "summary", FALSE, None, check_packaging(tree, env))

\* the summary and the dict of a completed run
BuildSummary ==
    /\ pc = "summary"
    /\ report' = [ plugin_name |-> IF pkg_dir # None THEN pkg_dir ELSE basename(plugin_path),
                   version |-> version,
                   categories |-> categories,
                   summary |-> Summary(categories),
                   error |-> None ]
    /\ pc' = "finally"
    /\ UNCHANGED << source, tree, env, skip_lint, skip_build, strict, cleanup, plugin_path,
                    tmpdir, localdir, pkg_dir, version, categories, raised, exit_code, cat, shown >>

\* os.path.isdir(plugin_path)
PathIsDir ==
    \/ plugin_path = "tmpdir" /\ tmpdir = "exists"
    \/ plugin_path = SRC_DIR /\ localdir = "exists"

\* a variant that removes plugin_path without asking who made it
finally_removes_any ==
    /\ pc = "finally"
    /\ IF PathIsDir
       THEN /\ tmpdir' = IF plugin_path = "tmpdir" THEN "removed" ELSE tmpdir
            /\ localdir' = IF plugin_path = SRC_DIR THEN "removed" ELSE localdir
       ELSE UNCHANGED << tmpdir, localdir >>
    /\ pc' = IF raised # None THEN "raised" ELSE "returned"
    /\ UNCHANGED << source, tree, env, skip_lint, skip_build, strict, cleanup, plugin_path,
                    pkg_dir, version, categories, report, raised, exit_code, cat, shown >>

\* finally: if cleanup and os.path.isdir(plugin_path): shutil.rmtree(plugin_path)
Finally ==
    /\ pc = "finally"
    /\ IF cleanup /\ PathIsDir
       THEN /\ tmpdir' = IF plugin_path = "tmpdir" THEN "removed" ELSE tmpdir
            /\ localdir' = IF plugin_path = SRC_DIR THEN "removed" ELSE localdir
       ELSE UNCHANGED << tmpdir, localdir >>
    /\ pc' = IF raised # None THEN "raised" ELSE "returned"
    /\ UNCHANGED << source, tree, env, skip_lint, skip_build, strict, cleanup, plugin_path,
                    pkg_dir, version, categories, report, raised, exit_code, cat, shown >>

\* main(): the report is printed in the format asked for and the exit status
\* chosen
Exit ==
    /\ pc = "returned"
    /\ \E format \in FORMATS : shown' = Printed(format, report)
    /\ exit_code' = ExitCode(report, strict)
    /\ pc' = "exited"
    /\ UNCHANGED << source, tree, env, skip_lint, skip_build, strict, cleanup, plugin_path,
                    tmpdir, localdir, pkg_dir, version, categories, report, raised, cat >>

\* an exception nothing catches ends the interpreter with a traceback and status 1
Uncaught ==
    /\ pc = "raised"
    /\ exit_code' = 1
    /\ pc' = "crashed"
    /\ UNCHANGED << source, tree, env, skip_lint, skip_build, strict, cleanup, plugin_path,
                    tmpdir, localdir, pkg_dir, version, categories, report, raised, cat,
                    shown >>

(***************************************************************************)
(* checks/__init__.py: a CategoryResult that results are appended to       *)
(***************************************************************************)
MaxResults == 3

ResultNames == { "exists", "parse" }

AppendResult ==
    /\ pc = "category"
    /\ Len(cat.results) < MaxResults
    /\ \E name \in ResultNames, severity \in Severity :
         cat' = [ cat EXCEPT !.results = Append(@, CheckResult(name, severity)) ]
    /\ UNCHANGED << pc, source, tree, env, skip_lint, skip_build, strict, cleanup,
                    plugin_path, tmpdir, localdir, pkg_dir, version, categories, report,
                    raised, exit_code, shown >>

Next ==
    \/ Clone
    \/ UseLocal
    \/ Detect
    \/ GetVersion
    \/ Structure
    \/ PluginConfig
    \/ Pyproject
    \/ Versioning
    \/ Changelog
    \/ Readme
    \/ DjangoApp
    \/ Workflows
    \/ Security
    \/ Certification
    \/ Github
    \/ Linting
    \/ Packaging
    \/ BuildSummary
    \/ Finally
    \/ Exit
    \/ Uncaught
    \/ AppendResult

(***************************************************************************)
(* The runs that are checked                                               *)
(***************************************************************************)
\* the files of a tree that some check opens as text
TextFiles(t) ==
    (t.files \cap { "README.md", "CHANGELOG.md", "LICENSE", ".gitignore" })
    \cup (IF isdir(t, ".github/workflows")
          THEN { t.workflows[i].path : i \in 1..Len(t.workflows) } ELSE {})

\* the tree with one file that cannot be read or parsed
Faulty(t) ==
    { [ t EXCEPT !.undecodable = { p } ] : p \in TextFiles(t) }
    \cup (IF isfile(t, "pyproject.toml")
          THEN { [ t EXCEPT !.pyproject.parse = "malformed" ] } ELSE {})
    \cup (IF t.inits # {}
          THEN { [ t EXCEPT !.init.read = r ] : r \in { "syntax", "decode" } } ELSE {})

\* the complete plugin without its manifest
NoManifestTree == [ FullTree EXCEPT !.files = @ \ { "pyproject.toml" } ]

SoundTrees == { FullTree, PoorTree, BareTree, DocsTree, NoManifestTree }

Trees == SoundTrees \cup Faulty(FullTree) \cup Faulty(PoorTree) \cup Faulty(DocsTree)

\* one CategoryResult, empty, about to be appended to
InitCategory ==
    /\ pc = "category"
    /\ source = SRC_DIR
    /\ tree = BareTree
    /\ env = GoodEnv
    /\ skip_lint = TRUE
    /\ skip_build = TRUE
    /\ strict = FALSE
    /\ cleanup = FALSE
    /\ plugin_path = SRC_DIR
    /\ tmpdir = "absent"
    /\ localdir = "exists"
    /\ pkg_dir = None
    /\ version = NoVersion
    /\ categories = << >>
    /\ report = NoReport
    /\ raised = None
    /\ exit_code = -1
    /\ cat = CategoryResult("Structure", "F", << >>)
    /\ shown = -1

\* a few runs that take every step of the command
InitSmoke ==
    \/ InitCategory
    \/ \E src \in { SRC_URL, SRC_DIR }, skip \in BOOLEAN,
          t \in { FullTree, [ FullTree EXCEPT !.undecodable = { "README.md" } ] } :
         Start(src, t, GoodEnv, skip, skip, FALSE)
    \/ Start(SRC_MISSING, BareTree, GoodEnv, FALSE, FALSE, FALSE)

\* every source, tree, environment and flag
Init ==
    \/ InitSmoke
    \/ \E src \in { SRC_URL, SRC_DIR }, t \in Trees, e \in Envs,
          lint \in BOOLEAN, build \in BOOLEAN, s \in BOOLEAN :
         Start(src, t, e, lint, build, s)

Spec == Init /\ [][Next]_vars

\* what __init__.py may say about the version
InitAssigns ==
    { << >>, << Literal(V123) >>, << Expression >>, << Expression, Literal(V123) >>,
      << Nested(V120) >>, << Number(V12) >>, << Literal(V12) >>,
      << Literal(V123), Nested(V120) >> }

\* importlib.metadata named or not, metadata.version( called or not
DynamicTexts == { << FALSE, FALSE >>, << TRUE, FALSE >>, << TRUE, TRUE >> }

InitFiles ==
    { [ GoodInit EXCEPT !.assigns = a, !.imports_version = i,
                        !.txt_importlib = d[1], !.txt_mdversion = d[2] ] :
        a \in InitAssigns, i \in BOOLEAN, d \in DynamicTexts }
    \cup { [ GoodInit EXCEPT !.read = "syntax" ] }

\* version.py: missing, a literal, unparsable, a computed value, no assignment
VerpyFiles ==
    { [ file |-> FALSE, verpy |-> NoVerpy ],
      [ file |-> TRUE, verpy |-> [ read |-> "ok", assigns |-> << Literal(V200) >> ] ],
      [ file |-> TRUE, verpy |-> [ read |-> "syntax", assigns |-> << >> ] ],
      [ file |-> TRUE, verpy |-> [ read |-> "ok", assigns |-> << Expression >> ] ],
      [ file |-> TRUE, verpy |-> NoVerpy ] }

WithVerpy(t, v) ==
    IF ~v.file THEN t
    ELSE [ t EXCEPT !.pkg_files = @ \cup { "version.py" }, !.verpy = v.verpy ]

\* pyproject.toml: missing (with or without setup.py), malformed, without a
\* version, with one
Manifests ==
    { [ file |-> f, version |-> NoVersion ] : f \in { "missing", "setup.py", "malformed" } }
    \cup { [ file |-> "ok", version |-> v ] : v \in { NoVersion, V123, V200 } }

WithManifest(t, m) ==
    CASE m.file = "missing" -> [ t EXCEPT !.files = @ \ { "pyproject.toml" } ]
      [] m.file = "setup.py" ->
           [ t EXCEPT !.files = (@ \ { "pyproject.toml" }) \cup { "setup.py" } ]
      [] m.file = "malformed" -> [ t EXCEPT !.pyproject.parse = "malformed" ]
      [] OTHER ->
           [ t EXCEPT !.pyproject.version = m.version,
                      !.pyproject.keys = IF m.version = NoVersion THEN @ \ { "version" } ELSE @ ]

\* CHANGELOG.md: missing, or its first version heading
ChangelogHeads ==
    { [ file |-> FALSE, ver |-> NoVersion ], [ file |-> TRUE, ver |-> V123 ],
      [ file |-> TRUE, ver |-> V200 ] }

WithChangelog(t, c) ==
    IF ~c.file THEN [ t EXCEPT !.files = @ \ { "CHANGELOG.md" } ]
    ELSE [ t EXCEPT !.changelog.lines = << Heading(2, TRUE, c.ver, TRUE) >> ]

VersionTrees ==
    { WithChangelog(WithManifest(WithVerpy([ FullTree EXCEPT !.init = i ], v), m), c) :
        i \in InitFiles, v \in VerpyFiles, m \in Manifests, c \in ChangelogHeads }

\* every way the version sources of a local plugin can be written
InitVersion ==
    \/ InitSmoke
    \/ \E t \in VersionTrees : Start(SRC_DIR, t, GoodEnv, TRUE, TRUE, FALSE)

SpecVersion == InitVersion /\ [][Next]_vars

SpecCategory == InitSmoke /\ [][Next]_vars

\* the children of a root that discovery tells apart
CANDIDATES == { "netbox_a", "netbox_b", "netbox_c.py", "netbox_d", "plugin_e" }

\* what a child may be: not there, a file, a directory without __init__.py,
\* a directory with one
ChildKinds(n) ==
    IF n = "netbox_c.py" THEN { "absent", "file" }
    ELSE IF n = "plugin_e" THEN { "absent", "package" }
    ELSE { "absent", "file", "dir", "package" }

Roots == { k \in [ CANDIDATES -> { "absent", "file", "dir", "package" } ] :
             \A n \in CANDIDATES : k[n] \in ChildKinds(n) }

WithRoot(t, k) ==
    [ t EXCEPT !.files = (@ \ CANDIDATES) \cup { n \in CANDIDATES : k[n] = "file" },
               !.dirs = (@ \ CANDIDATES)
                          \cup { n \in CANDIDATES : k[n] \in { "dir", "package" } },
               !.inits = { n \in CANDIDATES : k[n] = "package" } ]

\* every arrangement of the children of a local root
InitDiscovery ==
    \/ InitSmoke
    \/ \E k \in Roots : Start(SRC_DIR, WithRoot(FullTree, k), GoodEnv, TRUE, TRUE, FALSE)

SpecDiscovery == InitDiscovery /\ [][Next]_vars

\* how the run of a command ends: exit 0, another exit status, the command
\* not found, the time limit reached
OUTCOMES == { "ok", "fail", "missing", "timeout" }

\* the environments of the tools: one outcome for black, one for isort and
\* flake8, one for the two ruff runs, one for the build, one for twine;
\* `ruff --version` fails when ruff is not found and may when it is slow
ToolEnvs ==
    { e \in { [ GoodEnv EXCEPT
                  !.ruff = r,
                  !.tools = [ x \in TOOLS |->
                                CASE x = "black" -> o[1]
                                  [] x \in { "isort", "flake8" } -> o[2]
                                  [] x \in { "ruff_check", "ruff_format" } -> o[3]
                                  [] x = "build" -> o[4]
                                  [] OTHER -> o[5] ] ] :
                o \in [ 1..5 -> OUTCOMES ], r \in BOOLEAN } :
        e.tools["ruff_check"] = "missing" => ~e.ruff }

\* the complete local plugin, linting and packaging on, under every tool
\* environment
InitTools ==
    \/ InitSmoke
    \/ \E e \in ToolEnvs : Start(SRC_DIR, FullTree, e, FALSE, FALSE, FALSE)

SpecTools == InitTools /\ [][Next]_vars

\* the reports rendered have up to DenseTotal results, or MaxTotal
DenseTotal == 50
MaxTotal == 200

Totals == 0..DenseTotal \cup { MaxTotal }

\* the most results one category of a rendered report has
MaxPerCategory == 50

\* a report with t results, the first p of them passes, in categories of up
\* to MaxPerCategory results, as audit_plugin returns it to main()
RenderedReport(t, p) ==
    LET n == IF t = 0 THEN 1 ELSE (t + MaxPerCategory - 1) \div MaxPerCategory
        size(c) == IF c < n THEN MaxPerCategory ELSE t - (n - 1) * MaxPerCategory
        results(c) ==
            [ i \in 1..size(c) |->
                CheckResult("check",
                    IF (c - 1) * MaxPerCategory + i <= p THEN PASS ELSE ERROR) ]
        cats == [ c \in 1..n |-> CategoryResult("Security", "S", results(c)) ]
    IN  [ plugin_name |-> "plugin", version |-> NoVersion, categories |-> cats,
          summary |-> Summary(cats), error |-> None ]

\* main() about to print a report, for every pair of counts
InitRender ==
    \/ InitSmoke
    \/ \E t \in Totals : \E p \in 0..t :
         /\ pc = "returned"
         /\ source = SRC_DIR
         /\ tree = BareTree
         /\ env = GoodEnv
         /\ skip_lint = TRUE
         /\ skip_build = TRUE
         /\ strict = FALSE
         /\ cleanup = FALSE
         /\ plugin_path = SRC_DIR
         /\ tmpdir = "absent"
         /\ localdir = "exists"
         /\ pkg_dir = None
         /\ version = NoVersion
         /\ categories = RenderedReport(t, p).categories
         /\ report = RenderedReport(t, p)
         /\ raised = None
         /\ exit_code = -1
         /\ cat = CategoryResult("", "", << >>)
         /\ shown = -1

SpecRender == InitRender /\ [][Next]_vars

\* the most findings of one kind the security scans make
MaxFindings == 6

\* the complete plugin with every number of findings of the three scans
FindingTrees ==
    { [ FullTree EXCEPT !.secrets = a, !.verify_false = b, !.missing_timeout = c ] :
        a \in 0..MaxFindings, b \in 0..MaxFindings, c \in 0..MaxFindings }

\* a local plugin with findings, built with twine answering or timing out
InitFindings ==
    \/ InitSmoke
    \/ \E t \in FindingTrees, e \in { GoodEnv, TwineTimeoutEnv } :
         Start(SRC_DIR, t, e, TRUE, FALSE, FALSE)

SpecFindings == InitFindings /\ [][Next]_vars

\* changelogs of up to MaxHeadings lines with a version after '#': one or
\* two '#', the version in brackets or not, a date after it or not
MaxHeadings == 2

HeadingLines ==
    { Heading(h, b, v, d) : h \in { 1, 2 }, b \in BOOLEAN, v \in { V123, V200 }, d \in BOOLEAN }

ChangelogLines ==
    UNION { [ 1..n -> HeadingLines ] : n \in 0..MaxHeadings }

ChangelogTrees == { [ FullTree EXCEPT !.changelog.lines = l ] : l \in ChangelogLines }

InitChangelog ==
    \/ InitSmoke
    \/ \E t \in ChangelogTrees : Start(SRC_DIR, t, GoodEnv, TRUE, TRUE, FALSE)

SpecChangelog == InitChangelog /\ [][Next]_vars

(***************************************************************************)
(* Properties                                                              *)
(***************************************************************************)
\* audit_plugin has returned a dict
Returned == pc \in { "returned", "exited" }

\* the dict carries the fatal error
Fatal == report.error # None

\* the results of all categories, one after the other
Flatten(cats) ==
    LET upto[i \in 0..Len(cats)] == IF i = 0 THEN << >> ELSE upto[i - 1] \o cats[i].results
    IN  upto[Len(cats)]

\* how many of the results have the severity
NumberOf(results, sev) == Cardinality({ i \in 1..Len(results) : results[i].severity = sev })

\* the category holds a result of that name and severity
Has(c, name, sev) == \E i \in 1..Len(c.results) : c.results[i] = CheckResult(name, sev)

\* C1 (as stated): every returned report, fatal or not, has each summary field
\* equal to the sum of that count over its categories.
C1_SummaryIsSumAlways ==
    Returned =>
        /\ report.summary.total = Len(Flatten(report.categories))
        /\ report.summary.passed = NumberOf(Flatten(report.categories), PASS)
        /\ report.summary.errors = NumberOf(Flatten(report.categories), ERROR)
        /\ report.summary.warnings = NumberOf(Flatten(report.categories), WARNING)
        /\ report.summary.infos = NumberOf(Flatten(report.categories), INFO)

\* C1 (amended): every returned report has total, passed, warnings and infos
\* equal to the sums over its categories; errors equals the sum for a report
\* without the fatal error, and the sum plus the one synthetic error for a
\* fatal report.
C1_SummaryIsSumUnlessFatal ==
    Returned =>
        /\ report.summary.total = Len(Flatten(report.categories))
        /\ report.summary.passed = NumberOf(Flatten(report.categories), PASS)
        /\ report.summary.errors =
               NumberOf(Flatten(report.categories), ERROR) + (IF Fatal THEN 1 ELSE 0)
        /\ report.summary.warnings = NumberOf(Flatten(report.categories), WARNING)
        /\ report.summary.infos = NumberOf(Flatten(report.categories), INFO)

\* a report of a completed run with results of every severity, linting on, build off
C1_Witness ==
    /\ pc = "returned"
    /\ ~Fatal
    /\ ~skip_lint /\ skip_build
    /\ Len(report.categories) = 12
    /\ \A sev \in Severity : NumberOf(Flatten(report.categories), sev) > 0

\* C2: for every CategoryResult, whatever has been appended to its results,
\* total = passed + errors + warnings + infos.
C2_CountsPartitionResults ==
    /\ total(cat) = passed(cat) + errors(cat) + warnings(cat) + infos(cat)
    /\ \A i \in 1..Len(categories) :
         total(categories[i]) = passed(categories[i]) + errors(categories[i])
                                + warnings(categories[i]) + infos(categories[i])

\* a category after three appends of three severities, an Info among them
C2_Witness ==
    /\ pc = "category"
    /\ Len(cat.results) >= 3
    /\ infos(cat) = 1
    /\ Cardinality({ cat.results[i].severity : i \in 1..Len(cat.results) }) = 3

\* C3: a report with the fatal error set has no categories and the counts of
\* one Error entry (errors 1, passed, warnings, infos 0); a report of a run
\* that went through its checks has no error field.
C3_FatalReportShape ==
    Returned =>
        /\ Fatal =>
             /\ report.categories = << >>
             /\ report.summary.errors = 1
             /\ report.summary.passed = 0
             /\ report.summary.warnings = 0
             /\ report.summary.infos = 0
        /\ plugin_path # source \/ ~IsUrl(source) => report.error = None

\* the report of a clone that failed
C3_Witness == pc = "returned" /\ Fatal /\ IsUrl(source)

\* C4: audit_plugin never raises; when the source tree cannot be obtained the
\* result is a report with the fatal error and no categories, and every other
\* run returns a report with categories.
C4_AlwaysReturnsReport ==
    /\ pc \notin { "raised", "crashed" }
    /\ Returned =>
         IF plugin_path \in { "tmpdir", SRC_DIR }
         THEN ~Fatal /\ report.categories # << >>
         ELSE Fatal /\ report.categories = << >>

\* C5: when a check faults internally the run still completes and returns a
\* report with a category of every enabled check, the faulting check's being
\* one Error entry.
C5_Isolation ==
    /\ raised \notin { "UnicodeDecodeError", "TOMLDecodeError" }
    /\ pc = "returned" /\ ~Fatal =>
         /\ Len(report.categories)
              = 11 + (IF skip_lint THEN 0 ELSE 1) + (IF skip_build THEN 0 ELSE 1)
         /\ check_readme_raises(tree) =>
              /\ Len(report.categories[6].results) = 1
              /\ errors(report.categories[6]) = 1

\* the checks have begun: the package directory and the version are settled
Resolved ==
    /\ pc \notin { "start", "detect", "version", "category" }
    /\ plugin_path \in { "tmpdir", SRC_DIR }

\* the results are one entry, an Error or an Info
OneErrorOrInfo(c) ==
    /\ Len(c.results) = 1
    /\ c.results[1].severity \in { ERROR, INFO }

\* C6: when the package directory is unknown no check raises, and the
\* categories of check_pluginconfig, check_versioning, check_django_app,
\* check_security and check_linting are each exactly one Error or Info entry.
C6_UnknownPackage ==
    Resolved /\ pkg_dir = None =>
        /\ raised = None
        /\ Len(categories) >= 2 => OneErrorOrInfo(categories[2])
        /\ Len(categories) >= 4 => OneErrorOrInfo(categories[4])
        /\ Len(categories) >= 7 => OneErrorOrInfo(categories[7])
        /\ Len(categories) >= 9 => OneErrorOrInfo(categories[9])
        /\ Len(categories) >= 12 /\ ~skip_lint => OneErrorOrInfo(categories[12])

\* C7: the exit code of a run that printed its report is 1 exactly when the
\* report has the fatal error, or summary.errors > 0, or strict is on and
\* summary.warnings > 0, and 0 otherwise; a report that exits 1 without
\* strict exits 1 with it.
C7_ExitCode ==
    /\ pc = "exited" =>
         /\ exit_code \in { 0, 1 }
         /\ exit_code = 1 <=>
              \/ Fatal
              \/ report.summary.errors > 0
              \/ strict /\ report.summary.warnings > 0
    /\ Returned /\ ExitCode(report, FALSE) = 1 => ExitCode(report, TRUE) = 1

\* a strict run with warnings and infos and no error, which exits 1
C7_Witness ==
    /\ pc = "exited"
    /\ strict
    /\ ~Fatal
    /\ report.summary.errors = 0
    /\ report.summary.warnings > 0
    /\ report.summary.infos > 0
    /\ exit_code = 1

\* the values of the constants a file assigns to __version__, anywhere in it
Constants(file) ==
    { file.assigns[i].val :
        i \in { j \in 1..Len(file.assigns) : file.assigns[j].kind \in { "str", "num" } } }

\* the values of the string literals a file assigns to __version__ at top level
Literals(file) ==
    { file.assigns[i].val :
        i \in { j \in 1..Len(file.assigns) :
                  file.assigns[j].kind = "str" /\ file.assigns[j].level = "top" } }

\* __init__.py of the package is there and parses
EntryReadable == pkg_dir # None /\ pkg_isfile(tree, "__init__.py") /\ tree.init.read = "ok"

\* version.py of the package is there and parses
VerpyReadable == pkg_isfile(tree, "version.py") /\ tree.verpy.read = "ok"

\* the literals and the constants version.py gives, none when it cannot be read
VerpyLiterals == IF VerpyReadable THEN Literals(tree.verpy) ELSE {}
VerpyConstants == IF VerpyReadable THEN Constants(tree.verpy) ELSE {}

\* the version pyproject.toml declares, if it is there and parses
Declared ==
    IF isfile(tree, "pyproject.toml") /\ tree.pyproject.parse = "ok"
    THEN tree.pyproject.version ELSE NoVersion

\* C8: when __init__.py assigns one literal to __version__ the report's
\* version is that literal, whatever version.py, the dynamic lookup and the
\* manifest say, and when the manifest declares a different version the
\* Versioning category has an Error 'pyproject_match'.
C8_DirectConstantWins ==
    Resolved /\ EntryReadable =>
        \A v \in Literals(tree.init) :
            Constants(tree.init) = { v } =>
                /\ version = v
                /\ Len(categories) >= 4 /\ Declared \notin { NoVersion, v } =>
                     Has(categories[4], "pyproject_match", ERROR)

\* a literal in __init__.py against another version in version.py, imported,
\* and in the manifest, with the dynamic lookup in the text
C8_Witness ==
    /\ pc = "returned"
    /\ EntryReadable
    /\ Constants(tree.init) = { V123 } /\ Literals(tree.init) = { V123 }
    /\ tree.init.imports_version /\ VerpyLiterals = { V200 }
    /\ tree.init.txt_importlib
    /\ Declared = V200
    /\ report.version = V123
    /\ Has(report.categories[4], "pyproject_match", ERROR)

\* C9: when __init__.py has no constant and imports __version__ from
\* version, the version is the literal version.py assigns; when version.py is
\* missing, unparsable or assigns no literal, nothing is raised and the
\* dynamic-lookup rule decides: with the lookup in the text the version is
\* the manifest's.
C9_VersionImport ==
    Resolved /\ EntryReadable /\ Constants(tree.init) = {} /\ tree.init.imports_version =>
        /\ \A v \in VerpyLiterals :
             VerpyConstants = { v } =>
                 /\ version = v
                 /\ Len(categories) >= 4 /\ Declared \notin { NoVersion, v } =>
                      Has(categories[4], "pyproject_match", ERROR)
        /\ VerpyConstants = {} =>
             /\ pc = "structure" => raised = None
             /\ tree.init.txt_importlib => version = Declared
             /\ Len(categories) >= 4 /\ tree.init.txt_importlib /\ tree.init.txt_mdversion
                  => Has(categories[4], "semver", PASS)

\* the import resolved from version.py
C9_Witness ==
    /\ pc = "returned"
    /\ EntryReadable
    /\ Constants(tree.init) = {}
    /\ tree.init.imports_version
    /\ VerpyLiterals = { V200 }
    /\ Declared = V123
    /\ report.version = V200

\* C10: when __init__.py has no constant and no resolvable version import
\* and names the dynamic metadata lookup, and the manifest declares V, the
\* report's version is V and the Versioning category has no Error
\* 'pyproject_match'.
C10_DynamicMode ==
    /\ Resolved /\ EntryReadable
    /\ Constants(tree.init) = {}
    /\ ~(tree.init.imports_version /\ VerpyConstants # {})
    /\ tree.init.txt_importlib
    /\ Declared # NoVersion
    => /\ version = Declared
       /\ Len(categories) >= 4 => ~Has(categories[4], "pyproject_match", ERROR)

\* a dynamic lookup resolved from the manifest, the version import unresolvable
C10_Witness ==
    /\ pc = "returned"
    /\ EntryReadable
    /\ Constants(tree.init) = {}
    /\ tree.init.imports_version /\ VerpyConstants = {}
    /\ tree.init.txt_importlib /\ tree.init.txt_mdversion
    /\ Declared = V200
    /\ report.version = V200
    /\ Has(report.categories[4], "pyproject_match", PASS)

\* C11: when __init__.py gives no constant, no resolvable version import
\* and does not name the dynamic lookup, and the manifest declares a version,
\* the report's version is the manifest's.
C11_ManifestFallback ==
    /\ Resolved /\ EntryReadable
    /\ Constants(tree.init) = {}
    /\ ~(tree.init.imports_version /\ VerpyConstants # {})
    /\ ~tree.init.txt_importlib
    /\ Declared # NoVersion
    => version = Declared

\* the versions __init__.py gives without a lookup: its own constants, or
\* those of version.py when it imports __version__ from there
StaticVersions ==
    IF ~EntryReadable THEN {}
    ELSE IF Constants(tree.init) # {} THEN Constants(tree.init)
    ELSE IF tree.init.imports_version THEN VerpyConstants
    ELSE {}

\* __init__.py gives no version of its own and calls metadata.version(
DynamicLookup ==
    /\ EntryReadable /\ StaticVersions = {}
    /\ tree.init.txt_importlib /\ tree.init.txt_mdversion

\* the versions in the headings of the changelog, none when there is no
\* changelog or it cannot be read
ChangelogVersions ==
    IF \A f \in { CHANGELOG_VARIANTS[i] : i \in 1..Len(CHANGELOG_VARIANTS) } :
           ~isfile(tree, f) \/ f \in tree.undecodable
    THEN {}
    ELSE { SubSeq(tree.changelog.lines[i].ver, 1, 3) :
             i \in { j \in 1..Len(tree.changelog.lines) :
                       /\ tree.changelog.lines[j].hashes >= 1
                       /\ Len(tree.changelog.lines[j].ver) >= 3 } }

\* the Versioning category reports each missing version by a result of one
\* of the severities sevs, and nothing is raised on the way
AbsenceReported(module, manifest, changelog) ==
    Resolved /\ pkg_dir # None =>
        /\ Len(categories) \in { 0, 3 } => raised = None
        /\ StaticVersions = {} /\ (~tree.init.txt_importlib \/ Declared = NoVersion)
             => version = NoVersion
        /\ Len(categories) >= 4 =>
             /\ StaticVersions = {} /\ ~DynamicLookup =>
                  \E s \in module : Has(categories[4], "semver", s)
             /\ Declared = NoVersion =>
                  \E s \in manifest : Has(categories[4], "pyproject_match", s)
             /\ ChangelogVersions = {} =>
                  \E s \in changelog : Has(categories[4], "changelog_match", s)

Rank(n) == CHOOSE i \in 1..Len(ROOT_NAMES) : ROOT_NAMES[i] = n

\* a child of the root that is a directory, named netbox_*, holding __init__.py
Qualifies(n) ==
    /\ n \in tree.dirs
    /\ n \in { "netbox_a", "netbox_b", "netbox_c.py", "netbox_d" }
    /\ n \in tree.inits

\* package discovery has run on the root
Discovered == pc \notin { "start", "detect", "category" } /\ plugin_path \in { "tmpdir", SRC_DIR }

\* C13: the package directory is the lexicographically smallest child of
\* the root that is a directory, named netbox_* and holding __init__.py, and
\* null when no child is.
C13_SmallestQualifying ==
    Discovered =>
        IF \E n \in CANDIDATES : Qualifies(n)
        THEN /\ pkg_dir \in CANDIDATES /\ Qualifies(pkg_dir)
             /\ \A n \in CANDIDATES : Qualifies(n) => Rank(pkg_dir) <= Rank(n)
        ELSE pkg_dir = None

\* netbox_a a directory without __init__.py, netbox_b and netbox_d both
\* valid, netbox_c.py a file: netbox_b is found
C13_Witness ==
    /\ Discovered
    /\ "netbox_a" \in tree.dirs \ tree.inits
    /\ Qualifies("netbox_b") /\ Qualifies("netbox_d")
    /\ "netbox_c.py" \in tree.files
    /\ pkg_dir = "netbox_b"

\* check_versioning has run on a package
Versioned == Resolved /\ pkg_dir # None /\ Len(categories) >= 4

\* C14: when the module version is a static value and the manifest declares
\* a version, 'pyproject_match' is Error exactly when the two differ and Pass
\* exactly when they are equal.
C14_ManifestMatch ==
    LET module == _get_init_version(tree, pkg_dir)
    IN  Versioned /\ ~module.dynamic /\ module.ver # NoVersion /\ Declared # NoVersion =>
            /\ Has(categories[4], "pyproject_match", ERROR) <=> module.ver # Declared
            /\ Has(categories[4], "pyproject_match", PASS) <=> module.ver = Declared

\* the version imported from version.py equal to the manifest's
C14_Witness ==
    /\ pc = "returned"
    /\ EntryReadable /\ Constants(tree.init) = {}
    /\ tree.init.imports_version /\ VerpyLiterals = { V200 }
    /\ Declared = V200
    /\ Has(report.categories[4], "pyproject_match", PASS)
    /\ ~Has(report.categories[4], "pyproject_match", ERROR)

\* the version check_versioning compares the changelog with: the manifest's
\* under the dynamic lookup, the module's otherwise
EffectiveVersion ==
    LET module == _get_init_version(tree, pkg_dir)
    IN  IF module.dynamic THEN Declared ELSE module.ver

\* C15: 'changelog_match' is never an Error, it is a Warning exactly when
\* the effective version and the changelog version both exist and differ,
\* and the report's version is one the module or the manifest gives, never
\* the changelog's.
C15_ChangelogAdvisory ==
    /\ Versioned =>
         /\ ~Has(categories[4], "changelog_match", ERROR)
         /\ ChangelogVersions = {} => ~Has(categories[4], "changelog_match", WARNING)
         /\ \A c \in ChangelogVersions :
              ChangelogVersions = { c } =>
                  (Has(categories[4], "changelog_match", WARNING) <=>
                       EffectiveVersion \notin { NoVersion, c })
    /\ Resolved => version \in Constants(tree.init) \cup VerpyConstants \cup { Declared, NoVersion }

\* a changelog ahead of the module and the manifest: a Warning, and the
\* report keeps the module's version
C15_Witness ==
    /\ pc = "returned"
    /\ StaticVersions = { V123 } /\ Declared = V123
    /\ ChangelogVersions = { V200 }
    /\ Has(report.categories[4], "changelog_match", WARNING)
    /\ Has(report.categories[4], "pyproject_match", PASS)
    /\ report.version = V123

\* the names of a sequence of categories
NamesOf(cats) == [ i \in 1..Len(cats) |-> cats[i].name ]

\* the categories a complete run has, by its two flags
ExpectedNames ==
    << "Structure", "PluginConfig", "pyproject.toml", "Versioning", "CHANGELOG", "README",
       "Django Structure", "Workflows", "Security", "Certification", "GitHub Health" >>
    \o Opt(~skip_lint, "Linting") \o Opt(~skip_build, "Packaging")

\* C16: the categories are appended in the fixed order, Linting exactly
\* when skip_lint is false and Packaging exactly when skip_build is false;
\* no check runs before package discovery and version resolution, and the
\* report is built once every enabled check has run.
C16_FixedOrder ==
    /\ pc \in { "start", "detect", "version" } => categories = << >> /\ report = NoReport
    /\ Len(categories) <= Len(ExpectedNames)
    /\ NamesOf(categories) = SubSeq(ExpectedNames, 1, Len(categories))
    /\ report # NoReport /\ ~Fatal =>
         /\ pc \in { "finally", "returned", "exited" }
         /\ report.categories = categories
         /\ NamesOf(report.categories) = ExpectedNames

\* linting skipped, packaging not: twelve categories, the last Packaging
C16_Witness ==
    /\ pc = "returned" /\ ~Fatal
    /\ skip_lint /\ ~skip_build
    /\ Len(report.categories) = 12
    /\ report.categories[11].name = "GitHub Health"
    /\ report.categories[12].name = "Packaging"

\* C17: a report for a root without pyproject.toml, with skip_build false,
\* has no fatal error, its last category is Packaging with the one result
\* 'pyproject' of severity Error, and every other enabled category is there.
C17_NoManifest ==
    Returned /\ ~Fatal /\ ~isfile(tree, "pyproject.toml") /\ ~skip_build =>
        /\ report.error = None
        /\ NamesOf(report.categories) = ExpectedNames
        /\ LET packaging == report.categories[Len(report.categories)]
           IN  /\ packaging.name = "Packaging"
               /\ packaging.results = << CheckResult("pyproject", ERROR) >>
               /\ errors(packaging) = 1 /\ total(packaging) = 1

\* the complete plugin without its manifest, linting and packaging on, every
\* tool and the package index available
C17_Witness ==
    /\ pc = "returned" /\ ~Fatal
    /\ tree = NoManifestTree /\ env = GoodEnv
    /\ ~skip_lint /\ ~skip_build
    /\ Len(report.categories) = 13
    /\ report.categories[13] =
         CategoryResult("Packaging", "B", << CheckResult("pyproject", ERROR) >>)
    /\ passed(report.categories[1]) > 0

\* the eleven categories that run no tool of Linting or Packaging
Eleven(t, e, pkg) ==
    << check_structure(t, pkg), check_pluginconfig(t, pkg), check_pyproject(t, pkg),
       check_versioning(t, pkg), check_changelog(t, e), check_readme(t),
       check_django_app(t, pkg), check_workflows(t, pkg), check_security(t, pkg),
       check_certification(t, pkg), check_github(e, pkg) >>

\* a result of that name, of any severity
Names(c, name) == \E i \in 1..Len(c.results) : c.results[i].name = name

\* no element twice
NoRepeat(calls) == \A i, j \in 1..Len(calls) : calls[i] = calls[j] => i = j

\* Linting and Packaging have run with both flags off
ToolsRun == Resolved /\ ~skip_lint /\ ~skip_build /\ Len(categories) = 13

\* each command runs once, its result stays in Linting or Packaging, and
\* the run goes on to a report with a summary
ToolsContained ==
    /\ Resolved /\ Len(categories) >= 11 => raised = None
    /\ ToolsRun =>
         /\ SubSeq(categories, 1, 11) =
              Eleven(tree, [ env EXCEPT !.tools = GoodEnv.tools, !.ruff = TRUE ], pkg_dir)
         /\ NoRepeat(linting_calls(tree, env, pkg_dir))
         /\ NoRepeat(packaging_calls(tree, env))
    /\ ToolsRun /\ Returned =>
         /\ ~Fatal
         /\ report.summary.total = Len(Flatten(categories))

\* black, isort, flake8, the build and twine: Info when not found, Warning
\* when out of time (for twine, a Warning 'build')
ToolsDegrade ==
    ToolsRun /\ pkg_dir # None /\ isfile(tree, "pyproject.toml") =>
        /\ \A x \in { "black", "isort", "flake8" } :
             /\ env.tools[x] = "missing" => Has(categories[12], x, INFO)
             /\ env.tools[x] = "timeout" => Has(categories[12], x, WARNING)
        /\ env.tools["build"] = "missing" => Has(categories[13], "build", INFO)
        /\ env.tools["build"] = "timeout" => Has(categories[13], "build", WARNING)
        /\ env.tools["build"] = "ok" =>
             /\ env.tools["twine"] = "missing" => Has(categories[13], "twine", INFO)
             /\ env.tools["twine"] = "timeout" =>
                  /\ Has(categories[13], "build", WARNING)
                  /\ ~Names(categories[13], "twine")

Reverse(seq) == [ i \in 1..Len(seq) |-> seq[Len(seq) + 1 - i] ]
Swap(seq, i) == [ seq EXCEPT ![i] = seq[i + 1], ![i + 1] = seq[i] ]

Rendered == pc = "exited" /\ ~Fatal /\ shown # -1

\* 100 * p / t rounded to the nearest integer, a half going to the even
\* one (to_even) or up
Rounded(p, t, to_even) ==
    LET k == (100 * p) \div t
        rest == (100 * p) % t
    IN  IF 2 * rest < t THEN k
        ELSE IF 2 * rest > t THEN k + 1
        ELSE IF to_even /\ k % 2 = 0 THEN k ELSE k + 1

\* C20: the percentage printed is round(100 * passed / total), a half
\* rounded to the even integer or up, when total > 0 and 0 when total = 0;
\* it is an integer in 0..100, it is 100 exactly when passed = total > 0, and
\* the terminal and the markdown renderer give the same value.
C20_PassPercentage ==
    /\ Rendered =>
         LET p == report.summary.passed
             t == report.summary.total
         IN  /\ t = 0 => shown = 0
             /\ t > 0 => shown \in { Rounded(p, t, TRUE), Rounded(p, t, FALSE) }
             /\ shown \in 0..100
             /\ shown = 100 <=> (p = t /\ t > 0)
    /\ Returned => format_terminal(report) = format_markdown(report)

\* no two results of the category have the same name
DistinctNames(c) ==
    \A i, j \in 1..Len(c.results) : c.results[i].name = c.results[j].name => i = j

\* C21: in every category a check has returned, the names of the results
\* are pairwise distinct.
C21_UniqueNames ==
    \A k \in 1..Len(categories) : DistinctNames(categories[k])

\* __init__.py of the package is there and cannot be read as Python source
EntryUnparsable == pkg_dir # None /\ pkg_isfile(tree, "__init__.py") /\ tree.init.read # "ok"

\* C22: when __init__.py cannot be parsed, neither check_pluginconfig nor
\* check_versioning raises, PluginConfig has the Error 'parse', Versioning
\* has the Error 'semver' (version not found), and the checks after them run.
C22_ParseFailureIsNonFatal ==
    Resolved /\ EntryUnparsable =>
        /\ Len(categories) \in { 1, 3 } => raised = None
        /\ Len(categories) >= 2 => Has(categories[2], "parse", ERROR)
        /\ Len(categories) >= 4 => Has(categories[4], "semver", ERROR)
        /\ pc \in { "finally", "returned", "exited" } /\ raised = None =>
             NamesOf(categories) = ExpectedNames

\* the categories appended so far are still there, each as it was
Kept ==
    /\ Len(categories') >= Len(categories)
    /\ \A k \in 1..Len(categories) : categories'[k] = categories[k]

\* C23: no step of a run changes the name, the tag or the results of a
\* category that is already in the list; a check only adds its own category.
C23_EarlierCategoriesUnchanged == [][Kept /\ Len(categories') <= Len(categories) + 1]_vars

\* a run in which thirteen checks have each added a category with results
C23_Witness ==
    /\ pc = "returned"
    /\ Len(categories) = 13
    /\ \A k \in 1..13 : categories[k].results # << >>
    /\ report.categories = categories

\* C24: when __init__.py assigns no string literal to __version__ at top
\* level, imports no __version__ and names no metadata lookup, neither
\* resolver has a version: an assignment inside a class or function body, or
\* of a number, does not count.
C24_TopLevelStringOnly ==
    Resolved /\ EntryReadable /\ Literals(tree.init) = {}
             /\ ~tree.init.imports_version /\ ~tree.init.txt_importlib =>
        /\ version = NoVersion
        /\ _get_init_version(tree, pkg_dir) = Static(NoVersion)

\* the version of the first line '## [X.Y.Z] - YYYY-MM-DD' of the changelog
LatestDatedVersion ==
    LET dated == SelectSeq(tree.changelog.lines,
                     LAMBDA l : l.hashes = 2 /\ l.bracket /\ Len(l.ver) = 3 /\ l.dated)
    IN  IF dated = << >> THEN NoVersion ELSE Head(dated).ver

\* C25: the changelog version that check_versioning compares is the version
\* of the first dated release heading of the changelog; a heading without a
\* date before it is not selected, and without a dated heading there is no
\* changelog version.
C25_LatestDatedHeading ==
    Versioned /\ EffectiveVersion # NoVersion /\ isfile(tree, "CHANGELOG.md")
              /\ "CHANGELOG.md" \notin tree.undecodable =>
        /\ _get_changelog_version(tree) = LatestDatedVersion
        /\ Has(categories[4], "changelog_match",
               IF LatestDatedVersion = NoVersion THEN INFO
               ELSE IF LatestDatedVersion = EffectiveVersion THEN PASS ELSE WARNING)

\* C26: the report's version is the effective version of check_versioning,
\* and a report with a version has no Error 'semver' in Versioning.
C26_ResolversAgree ==
    Resolved /\ pkg_dir # None =>
        /\ version = EffectiveVersion
        /\ Len(categories) >= 4 /\ version # NoVersion =>
             ~Has(categories[4], "semver", ERROR)

\* audit_plugin has returned or raised
Finished == pc \in { "returned", "raised", "exited", "crashed" }

\* C27: when audit_plugin has finished for a remote source, the temporary
\* directory made for the clone does not exist any more, whether the run
\* returned a report, a check raised, the clone failed or it timed out.
C27_TmpdirRemoved ==
    IsUrl(source) /\ Finished => tmpdir # "exists"

CloneFailed == IsUrl(source) /\ pc # "start" /\ plugin_path # "tmpdir"

\* C29: after a failed clone the run is never at package discovery, version
\* resolution or a check; every other run that has finished has invoked
\* each enabled check once, in order, and the temporary directory is only
\* removed once the last check has returned and the summary is computed.
C29_ShortCircuitAndSingleExecution ==
    pc # "category" =>
        /\ CloneFailed =>
             /\ pc \in { "returned", "raised", "exited", "crashed" }
             /\ categories = << >> /\ pkg_dir = None /\ version = NoVersion
        /\ Finished /\ ~CloneFailed => NamesOf(categories) = ExpectedNames
        /\ tmpdir = "removed" =>
             /\ NamesOf(categories) = ExpectedNames
             /\ report # NoReport /\ report.summary = Summary(categories)

\* how many results of the category have the name
Count(c, name) == Cardinality({ i \in 1..Len(c.results) : c.results[i].name = name })

\* C30: when the package directory is known the Versioning category has
\* exactly one result 'semver', one 'pyproject_match' and one
\* 'changelog_match'.
C30_ThreeResults ==
    Versioned =>
        /\ Count(categories[4], "semver") = 1
        /\ Count(categories[4], "pyproject_match") = 1
        /\ Count(categories[4], "changelog_match") = 1

====
